---- MODULE Spec2Model ----
(***************************************************************************)
(* Model of the deterministic design-formula engine of                     *)
(* src/src/design_formulas.py (staleness analysis, modification cost,      *)
(* torque compatibility, displacement and bore/stroke simulation, the wiki *)
(* rating formulas of engine, chassis, gearbox and vehicle, the slider     *)
(* health diagnosis, unit cost and finish time), of the batch calculation  *)
(* of src/src/nodes_advisors.py, of two concurrent engine estimates        *)
(* (SpecConcurrent) and of the SQL pipeline of src/src/nodes_pipeline.py   *)
(* (SpecPipeline).                                                         *)
(*                                                                         *)
(* Every public or private function of the engine is one action: the       *)
(* action draws the arguments from a bounded set, runs the whole function  *)
(* body and records the call, the function's local values, the returned    *)
(* value and the exception raised (if any).  The objects a caller passes   *)
(* by reference (mappings, parameter records) live in heap, which holds    *)
(* their contents after the call; call holds the contents passed.          *)
(*                                                                         *)
(* Python floats are modelled as fixed-point integers: the float x is the  *)
(* integer x * FP.  A fractional power x ** (p/q) is the floor of the      *)
(* exact real value at that scale, computed by an integer q-th root over   *)
(* arbitrary-precision naturals (sequences of limbs), so no intermediate   *)
(* value overflows.  Values that the code rounds with round(x, n) are      *)
(* rounded half-to-even, as Python does.                                   *)
(***************************************************************************)
EXTENDS Integers, Sequences, FiniteSets, TLC

VARIABLES call, ret, loc, exc, prev, heap, threads, graph

vars == <<call, ret, loc, exc, prev, heap, threads, graph>>

\* The variables of a single calculator call, and the others.
calls == <<call, ret, loc, exc, prev, heap>>
others == <<threads, graph>>

----------------------------------------------------------------------------
(* Bounds of the model.                                                    *)

MaxAge == 21
CurrentYear == 1950
MaxTorque == 10
MaxCost == 8
MaxRows == 3

----------------------------------------------------------------------------
(* Fixed-point floats and arbitrary-precision naturals.                    *)

FP == 10 ^ 4

LIMB == 10 ^ 3

MaxFix == 200 * FP

Abs(x) == IF x < 0 THEN 0 - x ELSE x

Max2(a, b) == IF a >= b THEN a ELSE b

Min2(a, b) == IF a <= b THEN a ELSE b

\* Python round(): n / d rounded to the nearest integer, ties to even (d > 0).
RoundDiv(n, d) ==
    LET q == n \div d
        r == n - q * d
    IN  IF 2 * r < d THEN q
        ELSE IF 2 * r > d THEN q + 1
        ELSE IF q % 2 = 0 THEN q ELSE q + 1

\* round(x, digits) of the fixed-point float x, in units of 10^-digits.
RoundTo(x, digits) == RoundDiv(x * (10 ^ digits), FP)

RECURSIVE BigMulCarry(_, _, _)
BigMulCarry(a, k, carry) ==
    IF a = <<>>
    THEN IF carry = 0 THEN <<>>
         ELSE <<carry % LIMB>> \o BigMulCarry(<<>>, k, carry \div LIMB)
    ELSE LET t == Head(a) * k + carry
         IN  <<t % LIMB>> \o BigMulCarry(Tail(a), k, t \div LIMB)

\* The natural a (little-endian limbs, no leading zero limb) times 0 <= k < 2*10^6.
BigMul(a, k) == IF k = 0 THEN <<>> ELSE BigMulCarry(a, k, 0)

RECURSIVE BigPow(_, _, _)
\* a * k^n
BigPow(a, k, n) == IF n = 0 THEN a ELSE BigPow(BigMul(a, k), k, n - 1)

RECURSIVE BigLeqAt(_, _, _)
BigLeqAt(a, b, i) ==
    IF i = 0 THEN TRUE
    ELSE IF a[i] # b[i] THEN a[i] < b[i]
    ELSE BigLeqAt(a, b, i - 1)

BigLeq(a, b) ==
    IF Len(a) # Len(b) THEN Len(a) < Len(b) ELSE BigLeqAt(a, b, Len(a))

\* r <= FP * (x / FP) ^ (p / q), for p >= q:  r^q * FP^(p-q) <= x^p.
PowAtLeast(r, xp, p, q) == BigLeq(BigPow(BigPow(<<1>>, r, q), FP, p - q), xp)

RECURSIVE RootSearch(_, _, _, _, _)
RootSearch(lo, hi, xp, p, q) ==
    IF lo = hi THEN lo
    ELSE LET mid == (lo + hi + 1) \div 2
         IN  IF PowAtLeast(mid, xp, p, q)
             THEN RootSearch(mid, hi, xp, p, q)
             ELSE RootSearch(lo, mid - 1, xp, p, q)

\* The float x ** (p/q) for a fixed-point x >= 0 and an exponent p/q >= 1.
FixPow(x, e) == RootSearch(0, MaxFix, BigPow(<<1>>, x, e[1]), e[1], e[2])

----------------------------------------------------------------------------
(* Constants of design_formulas.py.                                        *)

COMPONENT_SAFE_AGE == 12
COMPONENT_STEEP_AGE == 15
COMPONENT_PENALTY_RATE == (5 * FP) \div 100
COMPONENT_STEEP_RATE == (25 * FP) \div 100
VEHICLE_AGE_OFFSET == 4
VEHICLE_STALENESS_TRIGGER == 9
VEHICLE_STALENESS_DIVISOR == 10
VEHICLE_STALENESS_EXPONENT == <<8, 5>>
BUYER_DIVISOR_EXPONENT == <<6, 5>>
SAFE_VEHICLE_AGE == 5

URGENCY_CRITICAL == 3 * FP
URGENCY_HIGH == 2 * FP
URGENCY_MEDIUM == (15 * FP) \div 10
URGENCY_LOW == 1 * FP

MOD_BASE_PERCENT == 15
MOD_ENGINE_PERCENT == 5
MOD_GEARBOX_PERCENT == 5
MOD_CHASSIS_PERCENT == 100

DISPLACEMENT_CONSTANT == (7854 * FP) \div (10 ^ 4)
HP_CONVERSION_FACTOR == 5252

----------------------------------------------------------------------------
(* Staleness.                                                              *)

\* Mutant: the steep penalty replaces the first penalty instead of adding to it.
ComponentStalenessOverwrites(age) ==
    IF age > COMPONENT_STEEP_AGE
    THEN (age - COMPONENT_STEEP_AGE) * COMPONENT_STEEP_RATE
    ELSE IF age > COMPONENT_SAFE_AGE
    THEN (age - COMPONENT_SAFE_AGE) * COMPONENT_PENALTY_RATE
    ELSE 0

\* Mutant: the steep penalty is subtracted.
ComponentStalenessSubtracts(age) ==
    IF age > COMPONENT_STEEP_AGE
    THEN (age - COMPONENT_SAFE_AGE) * COMPONENT_PENALTY_RATE
         - (age - COMPONENT_STEEP_AGE) * COMPONENT_STEEP_RATE
    ELSE IF age > COMPONENT_SAFE_AGE
    THEN (age - COMPONENT_SAFE_AGE) * COMPONENT_PENALTY_RATE
    ELSE 0

_component_staleness(age) ==
    LET p0 == 0
        p1 == IF age > COMPONENT_SAFE_AGE
              THEN p0 + (age - COMPONENT_SAFE_AGE) * COMPONENT_PENALTY_RATE
              ELSE p0
        p2 == IF age > COMPONENT_STEEP_AGE
              THEN p1 + (age - COMPONENT_STEEP_AGE) * COMPONENT_STEEP_RATE
              ELSE p1
    IN  p2

\* Mutant: the trigger age itself is already penalised.
VehicleStalenessStrictTrigger(age) ==
    LET effective == age + VEHICLE_AGE_OFFSET
    IN  IF effective < VEHICLE_STALENESS_TRIGGER
        THEN 0
        ELSE FixPow((effective * FP) \div VEHICLE_STALENESS_DIVISOR,
                    VEHICLE_STALENESS_EXPONENT)

_vehicle_staleness(age) ==
    LET effective == age + VEHICLE_AGE_OFFSET
    IN  IF effective <= VEHICLE_STALENESS_TRIGGER
        THEN 0
        ELSE FixPow((effective * FP) \div VEHICLE_STALENESS_DIVISOR,
                    VEHICLE_STALENESS_EXPONENT)

\* Mutant: the low band includes its lower bound.
UrgencyLowInclusive(buyer_divisor) ==
    IF buyer_divisor >= URGENCY_CRITICAL THEN "critical"
    ELSE IF buyer_divisor >= URGENCY_HIGH THEN "high"
    ELSE IF buyer_divisor >= URGENCY_MEDIUM THEN "medium"
    ELSE IF buyer_divisor >= URGENCY_LOW THEN "low"
    ELSE "none"

Urgency(buyer_divisor) ==
    IF buyer_divisor >= URGENCY_CRITICAL THEN "critical"
    ELSE IF buyer_divisor >= URGENCY_HIGH THEN "high"
    ELSE IF buyer_divisor >= URGENCY_MEDIUM THEN "medium"
    ELSE IF buyer_divisor > URGENCY_LOW THEN "low"
    ELSE "none"

\* calc_staleness from the buyer divisor on: percent retained and urgency,
\* and the local values of the function at its return statement.
StalenessJudged(ages, penalties, collective_age, buyer_divisor) ==
    [car_age |-> ages[1], engine_age |-> ages[2],
     chassis_age |-> ages[3], gearbox_age |-> ages[4],
     car_penalty |-> penalties[1], engine_penalty |-> penalties[2],
     chassis_penalty |-> penalties[3], gearbox_penalty |-> penalties[4],
     collective_age |-> collective_age, buyer_divisor |-> buyer_divisor,
     percent_retained |-> IF buyer_divisor > 0
                          THEN RoundDiv(100 * 10 * FP, buyer_divisor)
                          ELSE 0,
     urgency |-> Urgency(buyer_divisor)]

\* Mutant: the vehicle staleness exponent is used for the buyer divisor.
BuyerDivisorWrongExponent(collective_age) ==
    IF collective_age > 1 * FP
    THEN FixPow(collective_age, VEHICLE_STALENESS_EXPONENT)
    ELSE 1 * FP

BuyerDivisor(collective_age) ==
    IF collective_age > 1 * FP
    THEN FixPow(collective_age, BUYER_DIVISOR_EXPONENT)
    ELSE 1 * FP

\* calc_staleness from the penalties on: the collective factor and the divisor.
StalenessCollected(ages, penalties, collective_age) ==
    StalenessJudged(ages, penalties, collective_age, BuyerDivisor(collective_age))

\* Mutant: the gearbox penalty is left out of the collective factor.
StalenessPenalisedNoGearbox(ages, penalties) ==
    StalenessCollected(ages, penalties,
        1 * FP + penalties[1] + penalties[2] + penalties[3])

StalenessPenalised(ages, penalties) ==
    StalenessCollected(ages, penalties,
        1 * FP + penalties[1] + penalties[2] + penalties[3] + penalties[4])

\* The local values of calc_staleness at its return statement.
StalenessLocals(current_year, car_year, engine_year, chassis_year, gearbox_year) ==
    LET car_age == current_year - car_year
        engine_age == current_year - engine_year
        chassis_age == current_year - chassis_year
        gearbox_age == current_year - gearbox_year
    IN  StalenessPenalised(<<car_age, engine_age, chassis_age, gearbox_age>>,
                           <<_vehicle_staleness(car_age),
                             _component_staleness(engine_age),
                             _component_staleness(chassis_age),
                             _component_staleness(gearbox_age)>>)

\* The dict calc_staleness returns: collective_age, buyer_divisor and the
\* penalties in thousandths (round(x, 3)), percent_retained in tenths.
calc_staleness(l) ==
    [collective_age |-> RoundTo(l.collective_age, 3),
     buyer_divisor |-> RoundTo(l.buyer_divisor, 3),
     percent_retained |-> l.percent_retained,
     component_details |->
        [vehicle |-> [age |-> l.car_age, penalty |-> RoundTo(l.car_penalty, 3),
                      safe |-> l.car_age <= SAFE_VEHICLE_AGE],
         engine |-> [age |-> l.engine_age, penalty |-> RoundTo(l.engine_penalty, 3),
                     safe |-> l.engine_age <= COMPONENT_SAFE_AGE],
         chassis |-> [age |-> l.chassis_age, penalty |-> RoundTo(l.chassis_penalty, 3),
                      safe |-> l.chassis_age <= COMPONENT_SAFE_AGE],
         gearbox |-> [age |-> l.gearbox_age, penalty |-> RoundTo(l.gearbox_penalty, 3),
                      safe |-> l.gearbox_age <= COMPONENT_SAFE_AGE]],
     urgency |-> l.urgency]

----------------------------------------------------------------------------
(* Modification cost and torque compatibility.                             *)

\* Mutant: an engine change does not include the gearbox automatically.
ModTotalPercentNoAutoGearbox(engine_change, gearbox_change) ==
    IF engine_change /\ gearbox_change
    THEN MOD_BASE_PERCENT + MOD_ENGINE_PERCENT + MOD_GEARBOX_PERCENT
    ELSE IF engine_change
    THEN MOD_BASE_PERCENT + MOD_ENGINE_PERCENT
    ELSE IF gearbox_change
    THEN MOD_BASE_PERCENT + MOD_GEARBOX_PERCENT
    ELSE MOD_BASE_PERCENT

ModTotalPercent(engine_change, gearbox_change) ==
    IF engine_change /\ gearbox_change
    THEN MOD_BASE_PERCENT + MOD_ENGINE_PERCENT + MOD_GEARBOX_PERCENT
    ELSE IF engine_change
    THEN MOD_BASE_PERCENT + MOD_ENGINE_PERCENT + MOD_GEARBOX_PERCENT
    ELSE IF gearbox_change
    THEN MOD_BASE_PERCENT + MOD_GEARBOX_PERCENT
    ELSE MOD_BASE_PERCENT

ModComponentPercents(engine_change, gearbox_change) ==
    IF engine_change /\ gearbox_change
    THEN [base_new_generation |-> MOD_BASE_PERCENT,
          engine_gearbox |-> MOD_ENGINE_PERCENT + MOD_GEARBOX_PERCENT]
    ELSE IF engine_change
    THEN [base_new_generation |-> MOD_BASE_PERCENT,
          engine |-> MOD_ENGINE_PERCENT, gearbox_auto |-> MOD_GEARBOX_PERCENT]
    ELSE IF gearbox_change
    THEN [base_new_generation |-> MOD_BASE_PERCENT, gearbox |-> MOD_GEARBOX_PERCENT]
    ELSE [base_new_generation |-> MOD_BASE_PERCENT]

estimate_modification_cost(vehicle_design_cost, engine_change, gearbox_change, chassis_change) ==
    IF chassis_change
    THEN [base_percent |-> MOD_CHASSIS_PERCENT,
          component_percents |-> [chassis |-> MOD_CHASSIS_PERCENT],
          total_percent |-> MOD_CHASSIS_PERCENT,
          estimated_cost |-> vehicle_design_cost]
    ELSE LET total == ModTotalPercent(engine_change, gearbox_change)
         IN  [base_percent |-> MOD_BASE_PERCENT,
              component_percents |-> ModComponentPercents(engine_change, gearbox_change),
              total_percent |-> total,
              estimated_cost |-> RoundDiv(vehicle_design_cost * total, 100)]

\* Mutant: only a negative max torque takes the early return.
TorqueUnknownOnlyNegative(gearbox_max_torque) == gearbox_max_torque < 0

\* The early return of check_torque_compatibility: no gearbox torque data.
TorqueUnknown(gearbox_max_torque) == gearbox_max_torque <= 0

\* Does check_torque_compatibility divide by zero?
TorqueRaises(gearbox_max_torque) ==
    /\ ~TorqueUnknown(gearbox_max_torque)
    /\ gearbox_max_torque = 0

\* Mutant: the ratio is not scaled to a percentage.
OverflowPercentNotScaled(overflow, gearbox_max_torque) ==
    IF gearbox_max_torque > 0
    THEN RoundDiv(overflow * 10, gearbox_max_torque)
    ELSE 0

\* round(overflow / gearbox_max_torque * 100, 1), in tenths of a percent.
OverflowPercent(overflow, gearbox_max_torque) ==
    IF gearbox_max_torque > 0
    THEN RoundDiv(overflow * 100 * 10, gearbox_max_torque)
    ELSE 0

\* Mutant: an engine torque equal to the max torque counts as an overflow.
OverflowsInclusive(overflow) == overflow >= 0

\* The branch of check_torque_compatibility that reports an incompatibility.
Overflows(overflow) == overflow > 0

\* The dict check_torque_compatibility returns (percentages in tenths of a
\* percent: round(x, 1)); defined when TorqueRaises is false.
check_torque_compatibility(engine_torque, gearbox_max_torque) ==
    IF TorqueUnknown(gearbox_max_torque)
    THEN [compatible |-> TRUE, engine_torque |-> engine_torque,
          gearbox_max_torque |-> gearbox_max_torque,
          overflow_percent |-> 0, warning |-> "unknown"]
    ELSE LET overflow == engine_torque - gearbox_max_torque
             overflow_pct == OverflowPercent(overflow, gearbox_max_torque)
         IN  IF Overflows(overflow)
             THEN [compatible |-> FALSE, engine_torque |-> engine_torque,
                   gearbox_max_torque |-> gearbox_max_torque,
                   overflow_nm |-> overflow, overflow_percent |-> overflow_pct,
                   warning |-> "overflow"]
             ELSE LET headroom == 0 - overflow
                      headroom_pct == RoundDiv(headroom * 100 * 10, gearbox_max_torque)
                  IN  [compatible |-> TRUE, engine_torque |-> engine_torque,
                       gearbox_max_torque |-> gearbox_max_torque,
                       headroom_nm |-> headroom, headroom_percent |-> headroom_pct,
                       warning |-> "None"]

----------------------------------------------------------------------------
(* Engine: displacement, horsepower, bore and stroke simulation.  Bore and *)
(* stroke are whole millimetres.                                           *)

\* round(DISPLACEMENT_CONSTANT * n / 1000) for n = bore^2 * stroke * cylinders,
\* computed in two halves so that no product overflows.
RoundCc(n) ==
    LET h == n \div FP
        l == n % FP
        a == DISPLACEMENT_CONSTANT * h
        f == (a % 1000) * FP + DISPLACEMENT_CONSTANT * l
        d == FP * 1000
        i == (a \div 1000) + (f \div d)
        r == f % d
    IN  IF 2 * r < d THEN i
        ELSE IF 2 * r > d THEN i + 1
        ELSE IF i % 2 = 0 THEN i ELSE i + 1

\* int(DISPLACEMENT_CONSTANT * n / 1000): the fraction is dropped.
TruncCc(n) ==
    LET m == Abs(n)
        h == m \div FP
        l == m % FP
        a == DISPLACEMENT_CONSTANT * h
        f == (a % 1000) * FP + DISPLACEMENT_CONSTANT * l
        i == (a \div 1000) + (f \div (FP * 1000))
    IN  IF n < 0 THEN 0 - i ELSE i

\* Mutant: int() instead of round().
DisplacementTruncates(bore_mm, stroke_mm, cylinders) ==
    TruncCc(bore_mm * bore_mm * stroke_mm * cylinders)

\* Mutant: a negative volume is returned as 0.
DisplacementNegativeIsZero(bore_mm, stroke_mm, cylinders) ==
    Max2(RoundCc(bore_mm * bore_mm * stroke_mm * cylinders), 0)

calc_displacement(bore_mm, stroke_mm, cylinders) ==
    RoundCc(bore_mm * bore_mm * stroke_mm * cylinders)

\* Mutant: int() instead of round().
HpTruncates(torque, rpm) ==
    IF rpm <= 0 THEN 0 ELSE (torque * rpm) \div HP_CONVERSION_FACTOR

calc_hp(torque, rpm) ==
    IF rpm <= 0 THEN 0 ELSE RoundDiv(torque * rpm, HP_CONVERSION_FACTOR)

\* Mutant: the torque falls as the displacement grows (ratio 2 - new / old).
EstTorqueFalls(torque, new_cc, old_cc) ==
    RoundDiv(torque * (2 * old_cc - new_cc), old_cc)

\* round(params.torque * ratio) with ratio = new_cc / old_cc, old_cc > 0.
EstTorque(torque, new_cc, old_cc) == RoundDiv(torque * new_cc, old_cc)

\* round(n / d) for any d # 0.
RoundQuot(n, d) == IF d > 0 THEN RoundDiv(n, d) ELSE RoundDiv(0 - n, 0 - d)

ErrorResult == [error |-> "zero displacement"]

IsErrorResult(r) == "error" \in DOMAIN r

\* The early return of simulate_bore_change with an error dict.
BoreError(params) ==
    calc_displacement(params.bore, params.stroke, params.cylinders) <= 0

\* simulate_bore_change divides by ratio in its fuel_impact text: 1 / ratio
\* is evaluated whenever ratio # 1, and ratio is 0.0 when new_cc is 0.
BoreRaises(params, new_bore) ==
    /\ ~BoreError(params)
    /\ calc_displacement(new_bore, params.stroke, params.cylinders) = 0

\* The dict simulate_bore_change returns (bore_delta in hundredths,
\* fuel_impact in tenths of a percent); defined when BoreRaises is false.
simulate_bore_change(params, new_bore) ==
    LET old_cc == calc_displacement(params.bore, params.stroke, params.cylinders)
        new_cc == calc_displacement(new_bore, params.stroke, params.cylinders)
    IN  IF old_cc <= 0
        THEN ErrorResult
        ELSE LET est_torque == EstTorque(params.torque, new_cc, old_cc)
                 est_hp == calc_hp(est_torque, params.rpm)
             IN  [old_bore |-> params.bore, new_bore |-> new_bore,
                  bore_delta |-> (new_bore - params.bore) * 100,
                  old_cc |-> old_cc, new_cc |-> new_cc,
                  cc_delta |-> new_cc - old_cc,
                  old_torque |-> params.torque, est_torque |-> est_torque,
                  torque_delta |-> est_torque - params.torque,
                  old_hp |-> params.hp, est_hp |-> est_hp,
                  hp_delta |-> est_hp - params.hp,
                  fuel_impact |-> IF new_cc # old_cc
                                  THEN RoundQuot((new_cc - old_cc) * 1000, new_cc)
                                  ELSE 0]

\* The early return of simulate_stroke_change with an error dict.
StrokeError(params) ==
    \/ calc_displacement(params.bore, params.stroke, params.cylinders) <= 0
    \/ params.stroke <= 0

\* simulate_stroke_change divides params.rpm by stroke_ratio, which is 0.0
\* when new_stroke is 0.
StrokeRaises(params, new_stroke) ==
    /\ ~StrokeError(params)
    /\ new_stroke = 0

\* The dict simulate_stroke_change returns; defined when StrokeRaises is false.
simulate_stroke_change(params, new_stroke) ==
    LET old_cc == calc_displacement(params.bore, params.stroke, params.cylinders)
        new_cc == calc_displacement(params.bore, new_stroke, params.cylinders)
    IN  IF old_cc <= 0 \/ params.stroke <= 0
        THEN ErrorResult
        ELSE LET est_torque == EstTorque(params.torque, new_cc, old_cc)
                 est_rpm == RoundQuot(params.rpm * params.stroke, new_stroke)
                 est_hp == calc_hp(est_torque, est_rpm)
             IN  [old_stroke |-> params.stroke, new_stroke |-> new_stroke,
                  stroke_delta |-> (new_stroke - params.stroke) * 100,
                  old_cc |-> old_cc, new_cc |-> new_cc,
                  cc_delta |-> new_cc - old_cc,
                  old_torque |-> params.torque, est_torque |-> est_torque,
                  torque_delta |-> est_torque - params.torque,
                  old_rpm |-> params.rpm, est_rpm |-> est_rpm,
                  rpm_delta |-> est_rpm - params.rpm,
                  old_hp |-> params.hp, est_hp |-> est_hp,
                  hp_delta |-> est_hp - params.hp]

----------------------------------------------------------------------------
(* Helpers of the wiki formulas.  A mapping (dict) is a function from      *)
(* string keys to fixed-point floats; the empty mapping is << >>.          *)

REF_YEAR == 1899

\* The float literal n / d.
Frac(n, d) == (n * FP) \div d

\* floor(a * b) at the fixed-point scale, without an intermediate overflow.
MulFix(a, b) ==
    LET ah == a \div FP
        al == a % FP
        bh == b \div FP
        bl == b % FP
    IN  ah * bh * FP + ah * bl + al * bh + (al * bl) \div FP

RECURSIVE DivDigits(_, _, _)
\* The first n decimal digits of r / b after the point, for 0 <= r < b.
DivDigits(r, b, n) ==
    IF n = 0 THEN 0
    ELSE ((r * 10) \div b) * (10 ^ (n - 1)) + DivDigits((r * 10) % b, b, n - 1)

\* floor(a / b) at the fixed-point scale, for b > 0.
DivFix(a, b) == (a \div b) * FP + DivDigits(a % b, b, 4)

\* floor(a * b) for a and b at the scale FP * FP (eight decimals), below 10.
MulHigh(a, b) ==
    LET ah == a \div FP
        al == a % FP
        bh == b \div FP
        bl == b % FP
    IN  ah * bh + (ah * bl + al * bh + (al * bl) \div FP) \div FP

RECURSIVE HighPow(_, _)
\* base ** n at the scale FP * FP for n >= 0, by repeated squaring.
HighPow(base, n) ==
    IF n = 0 THEN FP * FP
    ELSE IF n % 2 = 0 THEN MulHigh(HighPow(base, n \div 2), HighPow(base, n \div 2))
    ELSE MulHigh(MulHigh(HighPow(base, n \div 2), HighPow(base, n \div 2)), base)

\* base ** n for an integer n, computed with eight decimals.
FixIntPow(base, n) ==
    IF n < 0 THEN DivFix(FP, HighPow(base * FP, 0 - n) \div FP)
    ELSE HighPow(base * FP, n) \div FP

_yexp(base, year) == FixIntPow(base, year - REF_YEAR)

_yexp_50r(year) == 
    IF year > 2020 THEN Frac(9010, 10000) ELSE FixIntPow(Frac(996, 1000), 2050 - year)

\* _clamp without its upper bound.
ClampNoUpper(value, lo, hi) == Max2(lo, value)

_clamp(value, lo, hi) == Max2(lo, Min2(hi, value))

\* _clamp(value) with the default bounds 0.0 and 100.0.
Clamp100(value) == _clamp(value, 0, 100 * FP)

\* The keys _s probes, in order.
Candidates(key) == <<key, "slider_" \o key, "ch_" \o key, "g_" \o key>>

\* The objects a mapping can hold besides floats are two values outside the
\* float range of the model: None, and a string that float() rejects.
NoneObject == 0 - MaxFix - 1

BadString == 0 - MaxFix - 2

\* float(v) succeeds for a v that is not None.
Floatable(v) == v # NoneObject /\ v # BadString

\* Candidate c is present in d with a value that _s returns.
Qualifies(d, c) == c \in DOMAIN d /\ Floatable(d[c])

\* The last candidate that qualifies instead of the first.
LastQualifying(d, key) ==
    LET found == {i \in 1..4 : Qualifies(d, Candidates(key)[i])}
    IN  IF found = {} THEN 0 ELSE CHOOSE i \in found : \A j \in found : i >= j

\* The position of the candidate at which the loop of _s returns, 0 when
\* the loop ends without a return.
FirstQualifying(d, key) ==
    LET found == {i \in 1..4 : Qualifies(d, Candidates(key)[i])}
    IN  IF found = {} THEN 0 ELSE CHOOSE i \in found : \A j \in found : i <= j

_s(d, key, default) ==
    IF FirstQualifying(d, key) = 0 THEN default
    ELSE d[Candidates(key)[FirstQualifying(d, key)]]

\* d[key] = value
Put(d, key, value) ==
    [k \in DOMAIN d \cup {key} |-> IF k = key THEN value ELSE d[k]]

\* d.setdefault(key, value)
SetDefault(d, key, value) == IF key \in DOMAIN d THEN d ELSE Put(d, key, value)

\* x / 10 * n
Tenths(n, x) == (n * x) \div 10


----------------------------------------------------------------------------
(* Engine formulas.                                                        *)

calc_engine_torque(sliders, sub, year, skill, bore_mm, stroke_mm, cylinders) ==
    LET s_torq == _s(sliders, "torq", 0)
        s_eco == _s(sliders, "eco", 0)
        s_dp == _s(sliders, "designperformance", 0)
        s_dfe == _s(sliders, "designfueleco", 0)
        techs == _s(sliders, "compoenents", 0) + _s(sliders, "materials", 0)
                 + _s(sliders, "tech", 0) + _s(sliders, "techniques", 0)
        lay_len == _s(sub, "Layout_Length", FP)
        lay_wid == _s(sub, "Layout_Width", FP)
        lay_pwr == _s(sub, "Layout_PowerRatings", FP)
        cyl_pwr == _s(sub, "Cylinders_PowerRating", FP)
        fuel_pwr == _s(sub, "FuelType_PowerRating", FP)
        indu_pwr == _s(sub, "Induction_PowerRating", Frac(1, 10))
        valve_pwr == _s(sub, "Valve_PowerRating", FP)
        cyl_count == _s(sub, "Cylinders_CylinderCount", cylinders * FP)
        e01 == _yexp(Frac(101, 100), year)
        e005 == _yexp(Frac(1005, 1000), year)
        e004 == _yexp(Frac(1004, 1000), year)
        e0024 == _yexp(Frac(10024, 10000), year)
        base == 10 * FP + (skill * FP) \div 20
                + MulFix(25 * Tenths(15, s_torq - Frac(4, 10)), e01)
                + MulFix(4 * (lay_len + lay_wid), e005)
                - MulFix(14 * (s_eco + s_dfe), e004)
                + MulFix(lay_pwr * 5 + cyl_pwr * 13 + fuel_pwr * 24 + 100 * indu_pwr
                         + MulFix(5 * e004, s_dp) + 8 * techs, e0024)
        disp_factor == MulFix((cyl_count * stroke_mm * bore_mm) \div 1000, 22599) \div 100
                       + 5 * FP
        scaled == MulFix(base, disp_factor)
        aged == IF year < 2050 THEN MulFix(scaled, _yexp_50r(year)) ELSE scaled
    IN  Max2(MulFix(aged, valve_pwr), 0)

\* AdjustedYear = year - 1899, capped at 121 after 2020.
_adjusted_year(year) == Min2(year - REF_YEAR, 121)

calc_engine_rpm(sliders, sub, year, skill) ==
    LET s_rpm == _s(sliders, "rpm", 0)
        s_dp == _s(sliders, "designperformance", 0)
        s_dfe == _s(sliders, "designfueleco", 0)
        s_eco == _s(sliders, "eco", 0)
        s_weight == _s(sliders, "weight", 0)
        s_tech_comp == _s(sliders, "compoenents", 0)
        s_tech_mat == _s(sliders, "materials", 0)
        s_tech_tec == _s(sliders, "techniques", 0)
        fuel_rpm == _s(sub, "FuelType_RPM", FP)
        valve_rpm == _s(sub, "Valve_RPM", FP)
        indu_pwr == _s(sub, "Induction_PowerRating", Frac(1, 10))
        stroke_mm == _s(sub, "stroke_mm", 80 * FP)
        ay == _adjusted_year(year)
        tmp_ay == IF ay > 80 THEN 80 * FP + ((ay - 80) * FP) \div 5 ELSE ay * FP
        \* tmp_ay ** 2 / 1000, tmp_ay ** 3 / 10000 and tmp_ay ** 4 / 10 ** 6
        ay2 == MulFix(tmp_ay, tmp_ay) \div 1000
        ay3 == MulFix(ay2, tmp_ay) \div 10
        ay4 == MulFix(ay2, ay2)
        e01 == _yexp(Frac(101, 100), year)
        e005 == _yexp(Frac(1005, 1000), year)
        e0105 == _yexp(Frac(10105, 10000), year)
        \* The coefficients 4.20875, 19 * 1.6835, 427 * 1.26 and 1315 * 0.01515
        \* of the scaled powers, at the fixed-point scale.
        base == MulFix(ay4, 42087)
                - MulFix(ay3, 319865)
                + MulFix(ay2, 5380200)
                + MulFix(tmp_ay, 199222)
                + 620 * FP
        rpm == base
               + 265 * MulFix(e01, s_dp)
               + 465 * MulFix(e0105, Tenths(55, s_rpm))
               - 10 * MulFix(e01, indu_pwr)
               + 55 * MulFix(e005, FP - s_weight)
               - 30 * MulFix(e005, s_dfe + s_eco)
               + 25 * MulFix(e01, s_tech_comp)
               + 25 * MulFix(e01, s_tech_mat)
               + 25 * MulFix(e01, s_tech_tec)
        scaled == MulFix(MulFix(rpm, fuel_rpm), valve_rpm)
        \* (rpm / 1.5) * (stroke_mm / 221.136364) = rpm * stroke_mm / 331.704546
        penalised == IF stroke_mm > 0
                     THEN scaled - DivFix(MulFix(scaled \div 100, stroke_mm), 33170)
                     ELSE scaled
    IN  Max2(penalised, 25 * FP)

calc_engine_power_rating(torque, year, cylinders) ==
    IF cylinders <= 0 THEN 0
    ELSE LET e007 == _yexp(Frac(1007, 1000), year)
             pr == 50 * DivFix(torque, (100 * e007 * cylinders * 10) \div 22)
         IN  Clamp100(Min2(pr, 50 * FP) + (50 * torque) \div 2000)

calc_engine_fuel_eco_rating(mpg) == Clamp100((mpg * 100) \div 120)

calc_engine_reliability_rating(sliders, sub, year, skill, rpm, stroke_mm) ==
    LET r1 == 6 * _s(sliders, "designdependability", 0)
              + 3 * (FP - _s(sliders, "designperformance", 0))
              + 5 * (FP - rpm \div 10000)
              + 2 * (FP - _s(sliders, "torq", 0))
              + 3 * (FP - _s(sliders, "rpm", 0))
              + 3 * _s(sliders, "compoenents", 0)
              + 2 * _s(sliders, "materials", 0)
              + (FP - _s(sliders, "tech", 0))
              + _s(sliders, "techniques", 0)
        r2 == _s(sub, "Cylinders_ReliabilityRating", FP)
              + _s(sub, "FuelType_ReliabilityRating", FP)
              + (FP - _s(sub, "Induction_ReliabilityRating", Frac(1, 2)))
              + _s(sub, "Layout_Reliability", FP)
              + 2 * _s(sub, "Valve_ReliabilityRating", FP)
        r3 == 8 * (FP - (stroke_mm * FP) \div 150)
    IN  Clamp100((((r1 + r2 + r3) * 10) \div 45) * 10 + (skill * FP) \div 10)

calc_engine_smoothness_rating(sliders, sub, cylinders, skill) ==
    LET parabola == 5 * FP - ((cylinders - 8) * (cylinders - 8) * FP) \div 10
        r == parabola
             + _s(sub, "Cylinders_SmoothnessRating", FP) * 2
             + _s(sub, "FuelType_SmoothnessRating", FP) * 2
             + _s(sub, "Layout_Smoothness", FP) * 2
             + _s(sliders, "compoenents", 0) * 3
             + _s(sliders, "tech", 0) * 2
             + _s(sliders, "techniques", 0) * 3
             + _s(sub, "Valve_SmoothnessRating", FP) * 2
             + (skill * FP) \div 25
    IN  _clamp(r * 4, FP, 100 * FP)

\* The sub-component mapping as estimate_engine_full leaves it.
EngineSubAfter(sub, stroke_mm, cylinders) ==
    SetDefault(Put(sub, "stroke_mm", stroke_mm * FP),
               "Cylinders_CylinderCount", cylinders * FP)

\* The fields of the result that are computed from the torque, the
\* displacement and the cylinder count; sub is the mapping after the writes.
EngineResult(sliders, sub, year, skill, bore_mm, stroke_mm, cylinders, torque, rpm) ==
    [torque |-> RoundTo(torque, 1),
     rpm |-> RoundTo(rpm, 0),
     hp |-> calc_hp(RoundTo(torque, 0), RoundTo(rpm, 0)),
     displacement_cc |-> calc_displacement(bore_mm, stroke_mm, cylinders),
     power_rating |-> RoundTo(calc_engine_power_rating(torque, year, cylinders), 1),
     reliability_rating |->
         RoundTo(calc_engine_reliability_rating(sliders, sub, year, skill, rpm,
                                                stroke_mm), 1),
     smoothness_rating |->
         RoundTo(calc_engine_smoothness_rating(sliders, sub, cylinders, skill), 1)]

estimate_engine_full(sliders, sub, year, skill, bore_mm, stroke_mm, cylinders) ==
    EngineResult(sliders, EngineSubAfter(sub, stroke_mm, cylinders), year, skill,
                 bore_mm, stroke_mm, cylinders,
                 calc_engine_torque(sliders, EngineSubAfter(sub, stroke_mm, cylinders),
                                    year, skill, bore_mm, stroke_mm, cylinders),
                 calc_engine_rpm(sliders, EngineSubAfter(sub, stroke_mm, cylinders),
                                 year, skill))

----------------------------------------------------------------------------
(* Chassis formulas.                                                       *)

\* The sum of the four TECH sliders of a chassis.
ChassisTech(sliders, wc, wm, wt, wq) ==
    wc * _s(sliders, "TECH_Compoenents", 0) + wm * _s(sliders, "TECH_Materials", 0)
    + wt * _s(sliders, "TECH_Tech", 0) + wq * _s(sliders, "TECH_Techniques", 0)

\* 10.0 * (skill / 100.0)
SkillTenth(skill) == (10 * skill * FP) \div 100

calc_chassis_comfort_rating(sliders, sub, skill) ==
    LET r == _s(sliders, "DE_Control", 0) + _s(sub, "Drive_rideSteering", Frac(1, 2))
             + _s(sliders, "FD_Weight", 0)
             + (_s(sub, "FrSus_Braking", Frac(1, 2)) + _s(sub, "RrSus_Braking", Frac(1, 2))
                + Tenths(45, _s(sliders, "SUS_Braking", 0)))
             + (_s(sub, "FrSus_Comfort", Frac(1, 2)) + _s(sub, "RrSus_Comfort", Frac(1, 2))
                + _s(sliders, "SUS_Comfort", 0) * 6)
             + (_s(sub, "FrSus_Steering", Frac(1, 2)) + _s(sub, "RrSus_Steering", Frac(1, 2))
                + Tenths(45, _s(sliders, "SUS_Stability", 0)))
             + ChassisTech(sliders, 1, 1, 1, 1) \div 2
    IN  Clamp100(((r * 10) \div 26) * 10 + SkillTenth(skill))

calc_chassis_performance_rating(sliders, sub, skill) ==
    LET r == _s(sliders, "SUS_Braking", 0) * 2 + _s(sliders, "DE_Performance", 0)
             - _s(sliders, "FD_Weight", 0) * 2 + _s(sliders, "SUS_Performance", 0) * 4
             + _s(sub, "FrSus_Steering", Frac(1, 2)) + _s(sub, "RrSus_Steering", Frac(1, 2))
             + ChassisTech(sliders, 1, 2, 1, 1) \div 2
             + _s(sub, "FrSus_Performance", Frac(1, 2))
             + _s(sub, "RrSus_Performance", Frac(1, 2))
             + _s(sub, "Frame_Performance", Frac(1, 2))
             + _s(sub, "Drive_carPerformance", Frac(1, 2)) * 2
             - (_s(sliders, "FD_Length", 0) + _s(sliders, "FD_Width", 0))
             + (FP - _s(sliders, "SUS_Stability", 0))
    IN  Clamp100((r \div 2) * 10 + SkillTenth(skill))

calc_chassis_strength_rating(sliders, sub, skill) ==
    LET r == (_s(sub, "Drive_Weight", Frac(1, 2)) + _s(sub, "Frame_Weight", Frac(6, 10))) \div 4
             + _s(sliders, "FD_Weight", 0) * 2
             + (_s(sub, "Drive_Duriblity", Frac(1, 2)) + _s(sub, "Frame_Durability", Frac(1, 2))
                + _s(sub, "RrSus_Durability", Frac(1, 2))
                + _s(sub, "FrSus_Durability", Frac(1, 2))) \div 6
             + _s(sliders, "FD_Height", 0) * 5 + _s(sub, "Frame_STR", Frac(1, 2)) * 8
             + _s(sliders, "DE_Str", 0)
             + ChassisTech(sliders, 2, 2, 2, 2) \div 2
             + _s(sliders, "FD_Length", 0)
    IN  Clamp100(((r * 10) \div 26) * 10 + SkillTenth(skill))

calc_chassis_dependability_rating(sliders, sub, skill) ==
    LET r == _s(sliders, "DE_Depend", 0) \div 2
             + Tenths(15, _s(sub, "Drive_Duriblity", Frac(1, 2)))
             + Tenths(15, _s(sub, "Frame_Durability", Frac(1, 2)))
             + (_s(sub, "FrSus_Durability", Frac(1, 2))
                + _s(sub, "RrSus_Durability", Frac(1, 2))) \div 2
             + Tenths(25, _s(sliders, "SUS_Durability", 0))
             + ChassisTech(sliders, 1, 1, 0 - 1, 1)
    IN  Clamp100(r * 10 + SkillTenth(skill))

\* The rating fields of the result of estimate_chassis_full.
estimate_chassis_full(sliders, sub, year, skill) ==
    [comfort_rating |-> RoundTo(calc_chassis_comfort_rating(sliders, sub, skill), 1),
     performance_rating |-> RoundTo(calc_chassis_performance_rating(sliders, sub, skill), 1),
     strength_rating |-> RoundTo(calc_chassis_strength_rating(sliders, sub, skill), 1),
     dependability_rating |->
         RoundTo(calc_chassis_dependability_rating(sliders, sub, skill), 1)]

----------------------------------------------------------------------------
(* Gearbox formulas.                                                       *)

\* A gearbox slider that is read under two or three names.
GearboxSlider(sliders, key, other, default) == _s(sliders, key, _s(sliders, other, default))

GearboxTorqueSlider(sliders) ==
    _s(sliders, "TorqueInputRatio",
       _s(sliders, "MaxTorqueInput", _s(sliders, "torque_input", Frac(1, 2))))

calc_gearbox_torque_capacity(sliders, sub, gears, year, skill) ==
    LET e0225 == _yexp(Frac(10225, 10000), year)
        s_tc == GearboxSlider(sliders, "Tech_Parts", "tech_parts", Frac(3, 10))
        mts == 10 * gears * FP
               + MulFix(75 * e0225, GearboxTorqueSlider(sliders))
               + MulFix(35 * e0225, FP - _s(sliders, "LoRatio", Frac(1, 2)))
               + MulFix(15 * e0225, FP - _s(sliders, "HiRatio", Frac(1, 2)))
               + MulFix(5 * e0225, GearboxSlider(sliders, "de_depend", "depend", Frac(3, 10)))
               + MulFix(5 * e0225, s_tc) + MulFix(5 * e0225, s_tc)
    IN  Max2(mts + (skill * FP) \div 5, 0)

calc_gearbox_power_rating(torque_capacity, year) ==
    LET e0225 == _yexp(Frac(10225, 10000), year)
        denom == 80 * FP + 150 * e0225 + 90 * e0225
    IN  IF denom <= 0 THEN 0 ELSE Clamp100(100 * DivFix(torque_capacity, denom))

calc_gearbox_fuel_rating(sliders, sub, gears, year, skill) ==
    LET r == 15 * GearboxSlider(sliders, "de_fuel", "fuel", Frac(3, 10))
             + 15 * _s(sub, "GB_Fuel", Frac(1, 2))
             + 13 * _s(sliders, "LoRatio", Frac(1, 2))
             + 10 * _s(sliders, "HiRatio", Frac(1, 2))
             + 5 * (FP - GearboxSlider(sliders, "de_performance", "performance", Frac(3, 10)))
             + 6 * _s(sub, "Overdrive", 0)
             + 2 * gears * FP
             + 5 * GearboxSlider(sliders, "Tech_Parts", "tech_parts", Frac(3, 10))
             + 6 * GearboxSlider(sliders, "Tech_Material", "tech_material", Frac(3, 10))
             + 6 * GearboxSlider(sliders, "Tech_Tech", "tech_tech", Frac(3, 10))
    IN  Clamp100(r + (skill * FP) \div 10)

calc_gearbox_performance_rating(sliders, sub, gears, year, skill) ==
    LET r == 10 * GearboxSlider(sliders, "de_performance", "performance", Frac(3, 10))
             + 13 * _s(sub, "GB_Performance", Frac(1, 2))
             + 2 * gears * FP
             + 7 * GearboxSlider(sliders, "Tech_Tech", "tech_tech", Frac(3, 10))
             + 6 * GearboxSlider(sliders, "Tech_Material", "tech_material", Frac(3, 10))
             + 7 * GearboxSlider(sliders, "Tech_Parts", "tech_parts", Frac(3, 10))
             + 6 * GearboxSlider(sliders, "Tech_Techniques", "tech_techniques", Frac(3, 10))
             + 15 * (FP - _s(sliders, "LoRatio", Frac(1, 2)))
             + 10 * _s(sliders, "HiRatio", Frac(1, 2))
             + 4 * _s(sub, "Limited", 0) + 2 * _s(sub, "Transaxle", 0)
    IN  Clamp100(r + (skill * FP) \div 10)

calc_gearbox_reliability_rating(sliders, sub, gears, year, skill) ==
    LET gb_complex == _s(sub, "GB_Complexity", Frac(1, 2))
        r == 20 * Abs(FP - gb_complex)
             + 15 * GearboxTorqueSlider(sliders)
             - (gears * FP + _s(sub, "Reverse", FP))
             + 10 * GearboxSlider(sliders, "Tech_Material", "tech_material", Frac(3, 10))
             + 10 * GearboxSlider(sliders, "Tech_Parts", "tech_parts", Frac(3, 10))
             + 10 * GearboxSlider(sliders, "de_depend", "depend", Frac(3, 10))
             + 5 * (FP - gb_complex)
             + 5 * (FP - GearboxSlider(sliders, "de_comfort", "comfort", Frac(3, 10)))
             + 5 * Abs(_s(sub, "Limited", 0) - FP)
             + 5 * Abs(_s(sub, "Overdrive", 0) - FP)
             + 5 * Abs(_s(sub, "Transaxle", 0) - FP)
             + 10 * (FP - GearboxSlider(sliders, "Tech_Tech", "tech_tech", Frac(3, 10)))
    IN  Clamp100(r + (skill * FP) \div 10)

calc_gearbox_comfort_rating(sliders, sub, skill) ==
    LET r == 10 * _s(sub, "Limited", 0) + 10 * _s(sub, "Reverse", FP)
             + 40 * GearboxSlider(sliders, "de_comfort", "comfort", Frac(3, 10))
             + 20 * _s(sub, "GB_Comfort_Sub", _s(sub, "GB_Comfort", Frac(1, 2)))
             + 20 * _s(sub, "GB_Smoothness", Frac(1, 2))
    IN  Clamp100(r + (skill * FP) \div 10)

\* The torque capacity and the rating fields of the result of
\* estimate_gearbox_full.
estimate_gearbox_full(sliders, sub, gears, year, skill) ==
    [torque_capacity |->
         RoundTo(calc_gearbox_torque_capacity(sliders, sub, gears, year, skill), 1),
     power_rating |->
         RoundTo(calc_gearbox_power_rating(
                     calc_gearbox_torque_capacity(sliders, sub, gears, year, skill), year), 1),
     fuel_rating |-> RoundTo(calc_gearbox_fuel_rating(sliders, sub, gears, year, skill), 1),
     performance_rating |->
         RoundTo(calc_gearbox_performance_rating(sliders, sub, gears, year, skill), 1),
     reliability_rating |->
         RoundTo(calc_gearbox_reliability_rating(sliders, sub, gears, year, skill), 1),
     comfort_rating |-> RoundTo(calc_gearbox_comfort_rating(sliders, sub, skill), 1)]

----------------------------------------------------------------------------
(* Vehicle ratings.  engine_r, chassis_r and gearbox_r are the rating      *)
(* mappings of the components, v_sliders the vehicle sliders, specs the    *)
(* measured figures of the vehicle.                                        *)

\* x / 100.0 * n
Percent(n, x) == (n * x) \div 100

calc_vehicle_performance_rating(engine_r, chassis_r, gearbox_r, v_sliders, specs) ==
    LET hp == _s(specs, "hp", 10 * FP)
        weight == _s(specs, "weight_kg", 1000 * FP)
        weight_tons == Max2(MulFix(weight, Frac(2205, 1000)) \div 2000, Frac(1, 100))
        pwr == _clamp(0 - Frac(24, 1000) + (3 * DivFix(hp, weight_tons)) \div 1000,
                      Frac(1, 100), FP)
        temp_accel == Min2(Max2(_s(specs, "accel_kph", 30 * FP), Frac(1, 2)), 60 * FP)
        temp_brake == Max2(_s(specs, "braking", 300 * FP), FP)
        r == Percent(10, _s(chassis_r, "performance_rating", 30 * FP))
             + 45 * pwr
             + 15 * _s(v_sliders, "Scroll_TestPerform", Frac(3, 10))
             + 5 * _s(specs, "lateral_g", FP)
             + (5 * _s(specs, "top_speed", 50 * FP)) \div 321
             + Percent(5, _s(gearbox_r, "performance_rating", 30 * FP))
             + 5 * DivFix(50 * FP, temp_brake)
             + (10 * (60 * FP - temp_accel)) \div 60
    IN  Clamp100(r)

calc_vehicle_luxury_rating(engine_r, chassis_r, gearbox_r, v_sliders, specs, skill) ==
    LET r == 7 * _s(v_sliders, "Scroll_DesignLux", Frac(3, 10))
             + 7 * _s(v_sliders, "Scroll_DesignStyle", Frac(3, 10))
             + 4 * _s(v_sliders, "Scroll_InteriorComf", Frac(3, 10))
             + 4 * _s(v_sliders, "Scroll_InteriorInno", Frac(3, 10))
             + 8 * _s(v_sliders, "Scroll_InteriorLux", Frac(3, 10))
             + 4 * _s(v_sliders, "Scroll_InteriorStyle", Frac(3, 10))
             + 3 * _s(v_sliders, "Scroll_InteriorTech", Frac(3, 10))
             + 5 * _s(v_sliders, "Scroll_MatMatInterQual", Frac(3, 10))
             + 5 * _s(v_sliders, "Scroll_TestComf", Frac(3, 10))
             + 3 * _s(v_sliders, "Scroll_TestUtil", Frac(3, 10))
             + Percent(15, _s(chassis_r, "comfort_rating", 50 * FP))
             + Percent(8, _s(gearbox_r, "comfort_rating", 50 * FP))
             + Percent(10, _s(engine_r, "smoothness_rating", 50 * FP))
             + Percent(5, _s(specs, "cargo_rating", 30 * FP))
             + Percent(7, skill * FP)
    IN  Clamp100(r)

calc_vehicle_safety_rating(chassis_r, v_sliders, specs, skill) ==
    LET brake == Max2(_s(specs, "braking", 300 * FP), FP)
        r == 10 * _s(v_sliders, "Scroll_DesignSafety", Frac(3, 10))
             + 10 * _s(v_sliders, "Scroll_InteriorSafe", Frac(3, 10))
             + 2 * _s(v_sliders, "Scroll_InteriorTech", Frac(3, 10))
             + 2 * _s(v_sliders, "Scroll_MatManuTech", Frac(3, 10))
             + 2 * _s(v_sliders, "Scroll_MatMatInterQual", Frac(3, 10))
             + 2 * _s(v_sliders, "Scroll_MatMatQual", Frac(3, 10))
             + 2 * _s(v_sliders, "Scroll_TestReli", Frac(3, 10))
             + (20 * _s(specs, "weight_kg", 1000 * FP)) \div 4000
             + Percent(15, skill * FP)
             + 5 * DivFix(50 * FP, brake)
             + Percent(15, _s(chassis_r, "strength_rating", 50 * FP))
    IN  Clamp100(r)

calc_vehicle_fuel_rating(fuel_mileage) == _clamp(fuel_mileage * 2, FP, 100 * FP)

calc_vehicle_cargo_rating(v_sliders, specs) ==
    LET r == (85 * (_s(specs, "cargo_volume", 500 * FP) \div 100)) \div 32
    IN  Clamp100(Min2(r, 85 * FP)
                 + 10 * _s(v_sliders, "Scroll_DesignCargo", Frac(3, 10))
                 + 5 * _s(v_sliders, "Scroll_TestUtil", Frac(3, 10)))

\* The quality rating after the torque-incompatibility penalty.
QualityPenalty(r, torque_compatible, torque_ratio) ==
    IF ~torque_compatible /\ torque_ratio < FP
    THEN Tenths(7, r) + MulFix(Percent(25, r), torque_ratio)
    ELSE r

calc_vehicle_quality_rating(engine_r, chassis_r, gearbox_r, v_sliders, skill, torque_compatible, torque_ratio) ==
    LET r == 10 * _s(v_sliders, "Scroll_DesignDepend", Frac(3, 10))
             + 5 * _s(v_sliders, "Scroll_DesignLux", Frac(3, 10))
             + 5 * _s(v_sliders, "Scroll_DesignStyle", Frac(3, 10))
             + 5 * _s(v_sliders, "Scroll_MatManuTech", Frac(3, 10))
             + 15 * _s(v_sliders, "Scroll_MatMatInterQual", Frac(3, 10))
             + 10 * _s(v_sliders, "Scroll_MatPaintQual", Frac(3, 10))
             + 10 * _s(v_sliders, "Scroll_TestReli", Frac(3, 10))
             + 5 * _s(v_sliders, "Scroll_TestUtil", Frac(3, 10))
             + Percent(5, _s(gearbox_r, "reliability_rating", 50 * FP))
             + Percent(5, _s(chassis_r, "dependability_rating", 50 * FP))
             + Percent(5, _s(engine_r, "reliability_rating", 50 * FP))
             + Percent(20, skill * FP)
    IN  Clamp100(QualityPenalty(Clamp100(r), torque_compatible, torque_ratio))

\* The dependability rating after the torque-incompatibility penalty.
DependabilityPenalty(r, torque_compatible, torque_ratio) ==
    IF ~torque_compatible /\ torque_ratio < FP
    THEN Percent(95, MulFix(r, torque_ratio))
    ELSE r

calc_vehicle_dependability_rating(engine_r, chassis_r, gearbox_r, v_sliders, torque_compatible, torque_ratio) ==
    LET r == 20 * _s(v_sliders, "Scroll_DesignDepend", Frac(3, 10))
             + 5 * _s(v_sliders, "Scroll_MatMatQual", Frac(3, 10))
             + 15 * _s(v_sliders, "Scroll_TestReli", Frac(3, 10))
             + 5 * _s(v_sliders, "Scroll_TestUtil", Frac(3, 10))
             + Percent(15, _s(chassis_r, "dependability_rating", 50 * FP))
             + Percent(5, _s(chassis_r, "strength_rating", 50 * FP))
             + Percent(10, _s(gearbox_r, "reliability_rating", 50 * FP))
             + Percent(20, _s(engine_r, "reliability_rating", 50 * FP))
             + Percent(5, _s(engine_r, "smoothness_rating", 50 * FP))
    IN  Clamp100(DependabilityPenalty(Clamp100(r), torque_compatible, torque_ratio))

----------------------------------------------------------------------------
(* Slider simulation and the batch calculation of the design advisor.      *)

\* dict(d) followed by update(changes)
Update(d, changes) ==
    [k \in DOMAIN d \cup DOMAIN changes |-> IF k \in DOMAIN changes THEN changes[k] ELSE d[k]]

\* estimate_fn of simulate_slider_change with the default keyword arguments
\* (gears 4, bore 70, stroke 80, 4 cylinders).
Estimate(component_type, sliders, sub, year, skill) ==
    CASE component_type = "engine" -> estimate_engine_full(sliders, sub, year, skill, 70, 80, 4)
      [] component_type = "chassis" -> estimate_chassis_full(sliders, sub, year, skill)
      [] component_type = "gearbox" -> estimate_gearbox_full(sliders, sub, 4, year, skill)

SliderDiff(before, after) == [k \in DOMAIN before |-> after[k] - before[k]]

simulate_slider_change(component_type, current_sliders, changes, sub_components, year, skill) ==
    IF component_type \notin {"engine", "chassis", "gearbox"}
    THEN [error |-> "Unknown component type"]
    ELSE [before |-> Estimate(component_type, current_sliders, sub_components, year, skill),
          after |-> Estimate(component_type, Update(current_sliders, changes),
                             sub_components, year, skill),
          diff |-> SliderDiff(
                       Estimate(component_type, current_sliders, sub_components, year, skill),
                       Estimate(component_type, Update(current_sliders, changes),
                                sub_components, year, skill))]

\* The row gets a bore simulation (+5 mm).
HasBoreSim(row) == row.engine.bore > 0

\* The calculation of one row raises: the bore simulation divides by zero,
\* or the report formats a float torque delta with "+d".
RowRaises(row) ==
    /\ HasBoreSim(row)
    /\ \/ BoreRaises(row.engine, row.engine.bore + 5)
       \/ ~BoreError(row.engine) /\ row.torque_is_float

\* The later of the build year and the modification year.
EffectiveYear(year_built, mod_year) == IF mod_year > year_built THEN mod_year ELSE year_built

\* The staleness analysis of a row.
RowStaleness(row, current_year) ==
    calc_staleness(StalenessLocals(
        current_year, row.years.car_year,
        EffectiveYear(row.years.engine_year, row.years.engine_mod_year),
        EffectiveYear(row.years.chassis_year, row.years.chassis_mod_year),
        EffectiveYear(row.years.gearbox_year, row.years.gearbox_mod_year)))

Report(row, current_year) ==
    [car_id |-> row.car_id, bore_sim |-> HasBoreSim(row),
     staleness |-> RowStaleness(row, current_year)]

\* The result of _calculate_design_metrics: the reports of all rows, or the
\* error text alone when the calculation of any row raised.
_calculate_design_metrics(rows, current_year) ==
    IF \E i \in DOMAIN rows : RowRaises(rows[i])
    THEN [error |-> TRUE, reports |-> <<>>]
    ELSE [error |-> FALSE,
          reports |-> [i \in DOMAIN rows |-> Report(rows[i], current_year)]]

----------------------------------------------------------------------------
(* Chassis unit cost and engine finish time.                               *)

\* x ** 2
Sq(x) == MulFix(x, x)

\* The local values of calc_chassis_unit_cost before its return statement.
ChassisCostLocals(sliders, sub, year, skill, car_price_rate) ==
    LET s_h == _s(sliders, "FD_Height", 0)
        s_l == _s(sliders, "FD_Length", 0)
        s_wd == _s(sliders, "FD_Width", 0)
        s_w == _s(sliders, "FD_Weight", 0)
        s_el == _s(sliders, "FD_ENG_Length", 0)
        s_ew == _s(sliders, "FD_ENG_Width", 0)
        s_brk == _s(sliders, "SUS_Braking", 0)
        s_comf == _s(sliders, "SUS_Comfort", 0)
        s_perf == _s(sliders, "SUS_Performance", 0)
        s_dur == _s(sliders, "SUS_Durability", 0)
        s_stab == _s(sliders, "SUS_Stability", 0)
        s_tc == _s(sliders, "TECH_Compoenents", 0)
        s_tm == _s(sliders, "TECH_Materials", 0)
        s_tt == _s(sliders, "TECH_Tech", 0)
        s_tq == _s(sliders, "TECH_Techniques", 0)
        s_ctrl == _s(sliders, "DE_Control", 0)
        s_dep == _s(sliders, "DE_Depend", 0)
        s_dp == _s(sliders, "DE_Performance", 0)
        s_str == _s(sliders, "DE_Str", 0)
        dr_cost == _s(sub, "Drive_Cost", FP)
        fr_cost == _s(sub, "Frame_Cost", FP)
        fr_sus_cost == _s(sub, "FrSus_Cost", FP)
        rr_sus_cost == _s(sub, "RrSus_Cost", FP)
        e015 == _yexp(Frac(1015, 1000), year)
        e02 == _yexp(Frac(102, 100), year)
        e045 == _yexp(Frac(1045, 1000), year)
        dim_sl == Sq(s_h) + Tenths(12, Sq(s_l)) + Sq(s_wd) + Sq(FP - s_w)
                  + Tenths(8, Sq(s_el)) + Tenths(8, Sq(s_ew))
        frame == MulFix(MulFix(MulFix(MulFix(MulFix(dim_sl * 25, e015), dr_cost),
                                      fr_cost), e015), car_price_rate)
        c_frame == 15 * e02 + frame + FP + Percent(4, frame)
                   + 15 * MulFix(e015, dr_cost) + 15 * MulFix(e015, fr_cost)
        sus_sl == Percent(75, Sq(s_brk)) + Percent(125, Sq(s_comf))
                  + Tenths(12, Sq(s_perf)) + Percent(135, Sq(s_dur)) + Sq(s_stab)
        sus == MulFix(MulFix(MulFix(MulFix(MulFix(sus_sl * 20, e02), fr_sus_cost),
                                    rr_sus_cost), e015), car_price_rate)
        c_sus == 15 * e02 + sus + FP + Percent(4, sus)
                 + 15 * MulFix(e015, fr_sus_cost) + 15 * MulFix(e015, rr_sus_cost)
        tech_sl == Percent(115, Sq(s_tc)) + Percent(125, Sq(s_tm))
                   + Percent(125, Sq(s_tt)) + Percent(75, Sq(s_tq))
        tech == MulFix(MulFix(tech_sl * 30, e015), car_price_rate)
        c_tech == 15 * e015 + tech + FP + Percent(4, tech)
        hyper == (s_ctrl + s_dep + s_dp + s_str
                  + s_l + s_wd + s_h + (FP - s_w) + s_ew + s_el
                  + s_stab + s_comf + s_perf + s_brk + s_dur
                  + s_tm + s_tc + s_tq + s_tt) \div 19
        c_hyper == MulFix(450 * e045, Sq(Sq(hyper)))
        mc == MulFix(c_frame + c_sus + c_tech, car_price_rate)
    IN  [fn |-> "calc_chassis_unit_cost", c_frame |-> c_frame, c_sus |-> c_sus,
         c_tech |-> c_tech, hyper |-> hyper, c_hyper |-> c_hyper,
         mc |-> mc + (mc - Percent(skill, mc \div 10))]

\* return max(mc, 0.0)
calc_chassis_unit_cost(l) == Max2(l.mc, 0)

\* The design pace adjustment of a finish time, shared by the four finish
\* time calculators.
PaceAdjusted(ft, s_pace, year) ==
    LET eff_year == Min2(year, 2020)
        pace_denom == IF s_pace + Frac(5, 100) <= 0 THEN Frac(5, 100)
                      ELSE s_pace + Frac(5, 100)
        additional == MulFix(((eff_year - 1840) * FP) \div 15,
                             DivFix(Frac(1, 2), pace_denom) - Frac(45, 100))
    IN  IF s_pace < Frac(1, 2) THEN ft + additional
        ELSE ft + additional - DivFix(s_pace - Frac(1, 2), Frac(2, 10))

\* The design pace of an engine and its finish time before the design pace
\* adjustment.
EngineFinishLocals(sliders, sub, year, factory_val) ==
    LET s_displace == _s(sliders, "displace", 0)
        s_weight == _s(sliders, "weight", 0)
        s_rpm == _s(sliders, "rpm", 0)
        s_torq == _s(sliders, "torq", 0)
        s_eco == _s(sliders, "eco", 0)
        s_dp == _s(sliders, "designperformance", 0)
        s_dfe == _s(sliders, "designfueleco", 0)
        s_dd == _s(sliders, "designdependability", 0)
        s_pace == _s(sliders, "design_pace",
                     _s(sliders, "engine_design_pace",
                        _s(sliders, "DesignPace", Frac(35, 100))))
        cyl_ft == _s(sub, "Cylinders_FinishTime", FP)
        lay_ft == _s(sub, "Layout_FinishTime", FP)
        indu_ft == _s(sub, "Induction_FinishTime", Frac(1, 2))
        fuel_ft == _s(sub, "FuelType_FinishTime", Frac(1, 2))
        valve_ft == _s(sub, "Valve_FinishTime", Frac(1, 2))
        hyper == (s_displace * 2 + (FP - _s(sliders, "length", 0))
                  + (FP - _s(sliders, "width", 0)) + (FP - s_weight)
                  + s_rpm + s_torq + s_eco + s_dp + s_dfe + s_dd
                  + _s(sliders, "materials", 0) + _s(sliders, "compoenents", 0)
                  + _s(sliders, "techniques", 0) + _s(sliders, "tech", 0)) \div 13
        e004 == _yexp(Frac(1004, 1000), year)
        e003 == _yexp(Frac(1003, 1000), year)
        ft == MulFix(Percent(55, s_displace) + (FP - s_weight)
                     + Percent(45, s_rpm + s_torq + s_eco)
                     + Percent(45, s_dd + s_dfe + s_dp), e004)
              + cyl_ft + lay_ft + Percent(75, indu_ft) + Percent(55, fuel_ft) + valve_ft
              + FP - (2 * factory_val * FP) \div 100
              + MulFix(Percent(115, e003), hyper)
    IN  [fn |-> "calc_engine_finish_time", s_pace |-> s_pace,
         ft |-> ft + ((year - 1850) * FP) \div 50]

calc_engine_finish_time(sliders, sub, year, factory_val) ==
    LET l == EngineFinishLocals(sliders, sub, year, factory_val)
    IN  Max2(PaceAdjusted(l.ft, l.s_pace, year), FP)

----------------------------------------------------------------------------
(* Slider health diagnosis.                                                *)

SLIDER_AVG_RISKY == (65 * FP) \div 100
SLIDER_AVG_DANGER == (75 * FP) \div 100
SLIDER_INDIVIDUAL_HIGH == (85 * FP) \div 100
SLIDER_INDIVIDUAL_VERY_LOW == (5 * FP) \div 100
\* The literal 0.75 of the design pace test.
PACE_HIGH == (75 * FP) \div 100

\* The keys of _NEGATIVE_CROSS_EFFECTS, in the order of the dict.
_NEGATIVE_CROSS_EFFECTS ==
    <<"slider_rpm", "slider_torq", "slider_designperformance",
      "ch_TECH_Tech", "FD_Weight", "SUS_Comfort",
      "g_Tech_Tech", "de_comfort",
      "Scroll_TestComf", "Scroll_InteriorSafe", "Scroll_DesignDepend">>

\* The keys of _CRITICAL_IF_ZERO, in the order of the dict.
_CRITICAL_IF_ZERO ==
    <<"Scroll_MatMatInterQual", "Scroll_DesignDepend",
      "slider_designdependability", "Scroll_TestDemo">>

_engine_keys ==
    <<"slider_displace", "slider_length", "slider_width", "slider_weight",
      "slider_rpm", "slider_torq", "slider_eco",
      "slider_materials", "slider_techniques", "slider_tech", "slider_compoenents",
      "slider_designperformance", "slider_designfueleco", "slider_designdependability">>

_chassis_keys ==
    <<"FD_Length", "FD_Width", "FD_Height", "FD_Weight",
      "FD_ENG_Width", "FD_ENG_Length",
      "SUS_Stability", "SUS_Comfort", "SUS_Performance",
      "SUS_Braking", "SUS_Durability",
      "ch_DE_Performance", "DE_Control", "DE_Str", "DE_Depend",
      "ch_TECH_Materials", "ch_TECH_Compoenents",
      "ch_TECH_Techniques", "ch_TECH_Tech">>

_gearbox_keys ==
    <<"g_de_performance", "de_fuel", "de_depend", "de_comfort",
      "Tech_Material", "Tech_Parts", "g_Tech_Techniques", "g_Tech_Tech">>

_vehicle_keys ==
    <<"Scroll_InteriorStyle", "Scroll_InteriorInno", "Scroll_InteriorLux",
      "Scroll_InteriorComf", "Scroll_InteriorSafe", "Scroll_InteriorTech",
      "Scroll_MatMatQual", "Scroll_MatMatInterQual",
      "Scroll_MatPaintQual", "Scroll_MatManuTech",
      "Scroll_DesignStyle", "Scroll_DesignLux", "Scroll_DesignSafety",
      "Scroll_DesignCargo", "Scroll_DesignDepend",
      "Scroll_TestDemo", "Scroll_TestPerform", "Scroll_TestFuel",
      "Scroll_TestComf", "Scroll_TestUtil", "Scroll_TestReli">>

\* The categories of the average loop: label and keys.
HealthCategories ==
    <<[label |-> "Engine", keys |-> _engine_keys],
      [label |-> "Chassis", keys |-> _chassis_keys],
      [label |-> "Gearbox", keys |-> _gearbox_keys],
      [label |-> "Vehicle", keys |-> _vehicle_keys]>>

\* The pace keys of the design pace loop, with their labels.
PaceKeys ==
    <<[key |-> "engine_design_pace", label |-> "Engine"],
      [key |-> "chassis_design_pace", label |-> "Chassis"],
      [key |-> "gearbox_design_pace", label |-> "Gearbox"],
      [key |-> "car_design_pace", label |-> "Vehicle"]>>

\* row.get(k, 0) or 0: a missing key, None and 0 give 0.
GetOrZero(row, k) ==
    IF k \notin DOMAIN row THEN 0
    ELSE IF row[k] = NoneObject THEN 0
    ELSE row[k]

\* float(row.get(k, 0) or 0) raises ValueError.
SliderRaises(row, k) == GetOrZero(row, k) = BadString

RECURSIVE SumSliders(_, _, _)
\* sum(vals) for the first n keys.
SumSliders(row, keys, n) ==
    IF n = 0 THEN 0 ELSE GetOrZero(row, keys[n]) + SumSliders(row, keys, n - 1)

\* avg = sum(vals) / len(vals)
SliderAverage(row, keys) == SumSliders(row, keys, Len(keys)) \div Len(keys)

\* The inefficiency band includes no mean of exactly SLIDER_AVG_RISKY.
AverageWarningStrictRisky(label, avg) ==
    IF avg >= SLIDER_AVG_DANGER THEN <<[kind |-> "danger", key |-> label, value |-> avg]>>
    ELSE IF avg > SLIDER_AVG_RISKY
    THEN <<[kind |-> "inefficient", key |-> label, value |-> avg]>>
    ELSE <<>>

\* The warnings the average of one category appends.
AverageWarning(label, avg) ==
    IF avg >= SLIDER_AVG_DANGER THEN <<[kind |-> "danger", key |-> label, value |-> avg]>>
    ELSE IF avg >= SLIDER_AVG_RISKY
    THEN <<[kind |-> "inefficient", key |-> label, value |-> avg]>>
    ELSE <<>>

\* The design pace test with the bound included.
PaceWarnsInclusive(pace) == pace >= PACE_HIGH

PaceWarns(pace) == pace > PACE_HIGH

\* The warnings of the loop over the sliders with negative cross-effects.
HighWarnings(row) ==
    LET High(k) == GetOrZero(row, k) >= SLIDER_INDIVIDUAL_HIGH
        sel == SelectSeq(_NEGATIVE_CROSS_EFFECTS, High)
    IN  [i \in 1 .. Len(sel) |->
            [kind |-> "high", key |-> sel[i], value |-> GetOrZero(row, sel[i])]]

\* The warnings of the loop over the sliders that are critical near zero.
LowWarnings(row) ==
    LET Low(k) == GetOrZero(row, k) <= SLIDER_INDIVIDUAL_VERY_LOW
        sel == SelectSeq(_CRITICAL_IF_ZERO, Low)
    IN  [i \in 1 .. Len(sel) |->
            [kind |-> "low", key |-> sel[i], value |-> GetOrZero(row, sel[i])]]

\* The warnings of the design pace loop.
PaceWarnings(row) ==
    LET Fast(p) == PaceWarns(GetOrZero(row, p.key))
        sel == SelectSeq(PaceKeys, Fast)
    IN  [i \in 1 .. Len(sel) |->
            [kind |-> "pace", key |-> sel[i].key, value |-> GetOrZero(row, sel[i].key)]]

\* Some value read by analyze_slider_health is no number.
HealthRaises(row) ==
    \/ \E c \in 1 .. 4 : \E i \in DOMAIN HealthCategories[c].keys :
           SliderRaises(row, HealthCategories[c].keys[i])
    \/ \E i \in DOMAIN _NEGATIVE_CROSS_EFFECTS : SliderRaises(row, _NEGATIVE_CROSS_EFFECTS[i])
    \/ \E i \in DOMAIN _CRITICAL_IF_ZERO : SliderRaises(row, _CRITICAL_IF_ZERO[i])
    \/ \E i \in DOMAIN PaceKeys : SliderRaises(row, PaceKeys[i].key)

\* The list of warnings analyze_slider_health returns.
analyze_slider_health(row) ==
    AverageWarning("Engine", SliderAverage(row, _engine_keys))
    \o AverageWarning("Chassis", SliderAverage(row, _chassis_keys))
    \o AverageWarning("Gearbox", SliderAverage(row, _gearbox_keys))
    \o AverageWarning("Vehicle", SliderAverage(row, _vehicle_keys))
    \o HighWarnings(row)
    \o LowWarnings(row)
    \o PaceWarnings(row)

----------------------------------------------------------------------------
(* Inputs.                                                                 *)

Ages == (0 - 2) .. MaxAge

VehicleAges == {0, 3, 5, 6, 8, MaxAge}

EngineAges == {10, 13, 16, MaxAge}

ChassisAges == {8, 12, 13, 15, 16, 20, MaxAge}

GearboxAges == {8, 14, MaxAge}

Torques == ((0 - 1) .. MaxTorque) \cup {250, 300}

DesignCosts == ((0 - 1) .. MaxCost) \cup {50, 150, 100000}

Bores == {0 - 70, 0, 1, 10, 70}

Strokes == {0 - 80, 0, 1, 10, 80}

CylinderCounts == {0, 1, 4}

HpTorques == {0, 200, 300}

Rpms == {0 - 1, 0, 1, 4000, 6000}

Engine(bore, stroke, cylinders, torque, rpm) ==
    [bore |-> bore, stroke |-> stroke, cylinders |-> cylinders,
     torque |-> torque, rpm |-> rpm, hp |-> calc_hp(torque, rpm)]

\* EngineParams records: a regular engine, one without rpm data, and engines
\* with a zero or negative bore, stroke or cylinder count.
Engines ==
    {Engine(70, 80, 4, 200, 4000), Engine(80, 70, 6, 150, 0),
     Engine(0, 80, 4, 200, 4000), Engine(0 - 70, 80, 4, 200, 4000),
     Engine(70, 0, 4, 200, 4000), Engine(70, 0 - 80, 4, 200, 4000),
     Engine(70, 80, 0, 200, 4000)}

NewBores == {0 - 70, 0, 1, 60, 70, 75, 80}

NewStrokes == {0 - 80, 0, 1, 70, 80, 90}

Skills == {0, 50, 100}

SliderValues == {0, Frac(1, 2), FP}

\* The mapping that gives every key the same value.
Uniform(keys, value) == [k \in keys |-> value]

\* The empty mapping (every read takes its default) and the mappings with
\* all sliders at 0, at 0.5 and at 1.
SliderMaps(keys) == {<<>>} \cup {Uniform(keys, v) : v \in SliderValues}

EngineSliderKeys ==
    {"torq", "eco", "rpm", "designperformance", "designfueleco",
     "designdependability", "compoenents", "materials", "tech", "techniques"}

EngineSubKeys ==
    {"Layout_Length", "Layout_Width", "Layout_PowerRatings", "Cylinders_PowerRating",
     "FuelType_PowerRating", "Induction_PowerRating", "Valve_PowerRating",
     "Cylinders_ReliabilityRating", "FuelType_ReliabilityRating",
     "Induction_ReliabilityRating", "Layout_Reliability", "Valve_ReliabilityRating",
     "Cylinders_SmoothnessRating", "FuelType_SmoothnessRating", "Layout_Smoothness",
     "Valve_SmoothnessRating"}

ChassisSliderKeys ==
    {"DE_Control", "DE_Performance", "DE_Str", "DE_Depend", "FD_Weight", "FD_Height",
     "FD_Length", "FD_Width", "SUS_Braking", "SUS_Comfort", "SUS_Stability",
     "SUS_Performance", "SUS_Durability", "TECH_Compoenents", "TECH_Materials",
     "TECH_Tech", "TECH_Techniques"}

ChassisSubKeys ==
    {"Drive_rideSteering", "Drive_carPerformance", "Drive_Weight", "Drive_Duriblity",
     "FrSus_Braking", "RrSus_Braking", "FrSus_Comfort", "RrSus_Comfort",
     "FrSus_Steering", "RrSus_Steering", "FrSus_Performance", "RrSus_Performance",
     "FrSus_Durability", "RrSus_Durability", "Frame_Performance", "Frame_Weight",
     "Frame_Durability", "Frame_STR"}

GearboxSliderKeys ==
    {"TorqueInputRatio", "LoRatio", "HiRatio", "de_depend", "de_fuel", "de_performance",
     "de_comfort", "Tech_Parts", "Tech_Material", "Tech_Tech", "Tech_Techniques"}

GearboxSubKeys ==
    {"GB_Fuel", "GB_Performance", "GB_Complexity", "GB_Comfort", "GB_Smoothness",
     "Overdrive", "Limited", "Transaxle", "Reverse"}

VehicleSliderKeys ==
    {"Scroll_TestPerform", "Scroll_TestDemo", "Scroll_DesignLux", "Scroll_DesignStyle",
     "Scroll_InteriorComf", "Scroll_InteriorInno", "Scroll_InteriorLux",
     "Scroll_InteriorStyle", "Scroll_InteriorTech", "Scroll_MatMatInterQual",
     "Scroll_TestComf", "Scroll_TestUtil", "Scroll_DesignSafety", "Scroll_InteriorSafe",
     "Scroll_MatManuTech", "Scroll_MatMatQual", "Scroll_TestReli", "Scroll_DesignCargo",
     "Scroll_DesignDepend", "Scroll_MatPaintQual"}

RatingKeys ==
    {"performance_rating", "comfort_rating", "smoothness_rating", "strength_rating",
     "reliability_rating", "dependability_rating"}

\* Rating mappings of a component: no rating, all ratings 0, all ratings 100.
RatingMaps == {<<>>, Uniform(RatingKeys, 0), Uniform(RatingKeys, 100 * FP)}

Specs(hp, weight_kg, accel_kph, top_speed, braking, lateral_g, cargo) ==
    [hp |-> hp * FP, weight_kg |-> weight_kg * FP, accel_kph |-> accel_kph * FP,
     top_speed |-> top_speed * FP, braking |-> braking * FP,
     lateral_g |-> lateral_g * FP, cargo_volume |-> cargo * 50 * FP,
     cargo_rating |-> cargo * FP]

\* No measured figures, a light and fast vehicle, a heavy and slow one.
SpecMaps ==
    {<<>>, Specs(500, 100, 0, 400, 0, 2, 100), Specs(0, 8000, 100, 0, 1000, 0, 0)}

RatingTorques == {0, 100 * FP, 3000 * FP}

RatingCylinders == {0, 1, 8, 20}

Mpgs == {0, 60 * FP, 150 * FP}

FuelMileages == {0, 25 * FP, 60 * FP}

RatingRpms == {25 * FP, 4000 * FP, 12000 * FP}

TorqueCapacities == {0, 300 * FP, 2000 * FP}

Gears == {1, 4, 30}

TorqueRatios == {0, Frac(1, 2), FP, Frac(3, 2)}

EngineBores == {70}

EngineStrokes == {80, 90}

EngineCylinders == {4, 6}

\* The bases and years of the year exponent helper.
YexpBases == {Frac(1005, 1000), Frac(101, 100)}

YexpYears == {CurrentYear, 2020, 2021, 2030}

\* The key looked up and its candidate names.
LookupKey == "torq"

\* The value under the i-th candidate name, by the kind of object stored.
LookupCell(kind, i) ==
    IF kind = "none" THEN NoneObject
    ELSE IF kind = "bad" THEN BadString
    ELSE i * Frac(1, 10)

\* The mappings that hold, under any of the candidate names, None, a string
\* that is no number, or a float (a different float under each name).
LookupMaps ==
    UNION {{[i \in S |-> LookupCell(kinds[i], i)] : kinds \in [S -> {"none", "bad", "float"}]} :
              S \in SUBSET (1 .. 4)}

\* The mapping with the candidate names of LookupKey as keys.
Named(m) ==
    [c \in {Candidates(LookupKey)[i] : i \in DOMAIN m} |->
        m[CHOOSE i \in DOMAIN m : Candidates(LookupKey)[i] = c]]

LookupDefaults == {0, Frac(35, 100)}

\* The slider levels of the rows given to analyze_slider_health.
HealthLevels == {Frac(5, 100), Frac(65, 100), Frac(75, 100), Frac(85, 100)}

HealthPaces == {Frac(75, 100), Frac(76, 100)}

\* The values that replace one slider of a row.
HealthOverrides == {NoneObject, BadString, Frac(4, 100), Frac(6, 100), Frac(84, 100), Frac(86, 100)}

\* The sliders that are replaced: one of each category, of both lists.
OverriddenKeys == {"slider_rpm", "de_comfort", "Scroll_DesignDepend", "Scroll_TestDemo"}

\* The set of the elements of a sequence.
Range(seq) == {seq[i] : i \in DOMAIN seq}

\* The row with every slider of a category at the level of the category,
\* the engine pace at pe and the vehicle pace at pv.
HealthRow(e, c, g, v, pe, pv) ==
    [k \in Range(_engine_keys) \cup Range(_chassis_keys) \cup Range(_gearbox_keys)
            \cup Range(_vehicle_keys) \cup {"engine_design_pace", "car_design_pace"} |->
        IF k \in Range(_engine_keys) THEN e
        ELSE IF k \in Range(_chassis_keys) THEN c
        ELSE IF k \in Range(_gearbox_keys) THEN g
        ELSE IF k \in Range(_vehicle_keys) THEN v
        ELSE IF k = "engine_design_pace" THEN pe
        ELSE pv]

\* The rows: an empty row, rows with one level per category, and rows with
\* all sliders at one level except one slider.
HealthRows ==
    {<<>>}
    \cup {HealthRow(e, c, g, v, pe, pv) :
              e \in HealthLevels, c \in HealthLevels, g \in HealthLevels,
              v \in HealthLevels, pe \in HealthPaces, pv \in HealthPaces}
    \cup {Put(HealthRow(l, l, l, l, Frac(75, 100), Frac(76, 100)), k, x) :
              l \in {Frac(65, 100), Frac(75, 100)}, k \in OverriddenKeys,
              x \in HealthOverrides}

\* The slider keys calc_chassis_unit_cost reads.
ChassisCostKeys == ChassisSliderKeys \cup {"FD_ENG_Length", "FD_ENG_Width"}

\* The four design sliders of a chassis, which enter the hyper term only.
ChassisDesignKeys == {"DE_Control", "DE_Depend", "DE_Performance", "DE_Str"}

\* Slider mappings of a chassis: uniform ones, and ones whose four design
\* sliders differ from the other sliders.
ChassisCostSliders ==
    SliderMaps(ChassisCostKeys)
    \cup {[k \in ChassisCostKeys |-> IF k \in ChassisDesignKeys THEN w ELSE v] :
              v \in SliderValues, w \in SliderValues}

ChassisCostSubs ==
    {<<>>, Uniform({"Drive_Cost", "Frame_Cost", "FrSus_Cost", "RrSus_Cost"}, Frac(3, 2))}

\* The slider keys calc_engine_finish_time reads besides the design pace.
EngineFinishKeys ==
    {"displace", "weight", "rpm", "torq", "eco", "designperformance", "designfueleco",
     "designdependability", "length", "width", "materials", "compoenents",
     "techniques", "tech"}

\* The design paces; NoneObject stands for a mapping without a design pace.
DesignPaces == {NoneObject, 0, Frac(25, 100), Frac(49, 100), Frac(1, 2), Frac(75, 100), FP}

\* The names under which an engine's design pace is stored.
EnginePaceNames == {"design_pace", "engine_design_pace", "DesignPace"}

FinishYears == {CurrentYear, 2030}

ComponentTypes == {"engine", "chassis", "gearbox", "vehicle"}

\* The build and modification years of a vehicle and its components.
Years(car, engine, engine_mod, chassis, chassis_mod, gearbox, gearbox_mod) ==
    [car_year |-> car, engine_year |-> engine, engine_mod_year |-> engine_mod,
     chassis_year |-> chassis, chassis_mod_year |-> chassis_mod,
     gearbox_year |-> gearbox, gearbox_mod_year |-> gearbox_mod]

\* Everything was built five years ago and never modified (a missing
\* modification year is read as 0).
BuiltFiveYearsAgo ==
    Years(CurrentYear - 5, CurrentYear - 5, 0, CurrentYear - 5, 0, CurrentYear - 5, 0)

\* The years of the first row of a batch: never modified; engine and
\* gearbox modified later; an engine whose year is the year after the
\* current year; a vehicle whose year is two years after the current year.
YearKinds ==
    {BuiltFiveYearsAgo,
     Years(CurrentYear - 3, CurrentYear - 20, CurrentYear - 2, CurrentYear - 14, 0,
           CurrentYear - 16, CurrentYear - 8),
     Years(CurrentYear, CurrentYear + 1, 0, CurrentYear - 5, 0, CurrentYear - 5, 0),
     Years(CurrentYear + 2, CurrentYear - 5, 0, CurrentYear - 5, 0, CurrentYear - 5, 0)}

\* A row of the design query: the vehicle, its engine, whether the database
\* returned the engine torque as a float, and the years.
Row(car_id, engine, torque_is_float) ==
    [car_id |-> car_id, engine |-> engine, torque_is_float |-> torque_is_float,
     years |-> BuiltFiveYearsAgo]

\* The engines of a batch and whether their torque is a float.
RowKinds == {Engine(70, 80, 4, 200, 4000), Engine(0, 80, 4, 200, 4000)} \X BOOLEAN

\* The batches of up to MaxRows rows, one row per vehicle.
Batches ==
    UNION {{[i \in 1 .. n |->
                IF i = 1
                THEN [Row(i, kinds[i][1], kinds[i][2]) EXCEPT !.years = years]
                ELSE Row(i, kinds[i][1], kinds[i][2])] :
               kinds \in [1 .. n -> RowKinds], years \in YearKinds} : n \in 1 .. MaxRows}


----------------------------------------------------------------------------
(* The state machine: one action per function.  A run makes one call of a  *)
(* function from the initial state; a staleness helper may be called a     *)
(* second time, and the first call is then remembered in prev.             *)

NoValue == "NoValue"

NoLocals == [fn |-> "none"]

NoPrev == [fn |-> "none", age |-> 0, penalty |-> 0]

\* The caller's mutable objects before any of them is passed to a function:
\* a slider mapping, a sub-component mapping and an EngineParams record.
NoHeap == [sliders |-> <<>>, sub |-> <<>>, params |-> Engine(0, 0, 0, 0, 0)]

\* The preceding call, when it was a call of the same staleness helper.
Remember(fn) ==
    IF call.fn = fn /\ exc = "none"
    THEN [fn |-> fn, age |-> call.age, penalty |-> ret]
    ELSE NoPrev

\* No calculator runs in a thread, and no query graph runs.
NoThreads == [objs |-> <<>>, t |-> <<>>]
NoGraph == [node |-> "none"]

\* No call was made yet.
Fresh == call.fn = "none"

\* A staleness helper is called first, or right after one call of itself.
HelperCallable(fn) == Fresh \/ (call.fn = fn /\ prev.fn = "none")

Init ==
    /\ call = [fn |-> "none"]
    /\ ret = NoValue
    /\ loc = NoLocals
    /\ exc = "none"
    /\ prev = NoPrev
    /\ heap = NoHeap
    /\ threads = NoThreads
    /\ graph = NoGraph

ComponentStaleness ==
    \E age \in Ages :
        /\ HelperCallable("_component_staleness")
        /\ heap' = heap
        /\ call' = [fn |-> "_component_staleness", age |-> age]
        /\ ret' = _component_staleness(age)
        /\ loc' = NoLocals
        /\ exc' = "none"
        /\ prev' = Remember("_component_staleness")
        /\ UNCHANGED others

VehicleStaleness ==
    \E age \in Ages :
        /\ HelperCallable("_vehicle_staleness")
        /\ heap' = heap
        /\ call' = [fn |-> "_vehicle_staleness", age |-> age]
        /\ ret' = _vehicle_staleness(age)
        /\ loc' = NoLocals
        /\ exc' = "none"
        /\ prev' = Remember("_vehicle_staleness")
        /\ UNCHANGED others

CalcStaleness ==
    \E va \in VehicleAges, ea \in EngineAges, ca \in ChassisAges,
       ga \in GearboxAges :
        /\ Fresh
        /\ \E l \in {StalenessLocals(CurrentYear, CurrentYear - va, CurrentYear - ea,
                                     CurrentYear - ca, CurrentYear - ga)} :
            /\ heap' = heap
            /\ call' = [fn |-> "calc_staleness", current_year |-> CurrentYear,
                        car_year |-> CurrentYear - va,
                        engine_year |-> CurrentYear - ea,
                        chassis_year |-> CurrentYear - ca,
                        gearbox_year |-> CurrentYear - ga]
            /\ ret' = calc_staleness(l)
            /\ loc' = l
            /\ exc' = "none"
            /\ prev' = NoPrev
        /\ UNCHANGED others

EstimateModificationCost ==
    \E cost \in DesignCosts, ec \in BOOLEAN, gc \in BOOLEAN, cc \in BOOLEAN :
        /\ Fresh
        /\ heap' = heap
        /\ call' = [fn |-> "estimate_modification_cost", vehicle_design_cost |-> cost,
                    engine_change |-> ec, gearbox_change |-> gc, chassis_change |-> cc]
        /\ ret' = estimate_modification_cost(cost, ec, gc, cc)
        /\ loc' = NoLocals
        /\ exc' = "none"
        /\ prev' = NoPrev
        /\ UNCHANGED others

CheckTorqueCompatibility ==
    \E et \in Torques, gt \in Torques :
        /\ Fresh
        /\ heap' = heap
        /\ call' = [fn |-> "check_torque_compatibility", engine_torque |-> et,
                    gearbox_max_torque |-> gt]
        /\ IF TorqueRaises(gt)
           THEN ret' = NoValue /\ exc' = "ZeroDivisionError"
           ELSE ret' = check_torque_compatibility(et, gt) /\ exc' = "none"
        /\ loc' = NoLocals
        /\ prev' = NoPrev
        /\ UNCHANGED others

CalcDisplacement ==
    \E bore \in Bores, stroke \in Strokes, cylinders \in CylinderCounts :
        /\ Fresh
        /\ heap' = heap
        /\ call' = [fn |-> "calc_displacement", bore_mm |-> bore,
                    stroke_mm |-> stroke, cylinders |-> cylinders]
        /\ ret' = calc_displacement(bore, stroke, cylinders)
        /\ loc' = NoLocals
        /\ exc' = "none"
        /\ prev' = NoPrev
        /\ UNCHANGED others

CalcHp ==
    \E torque \in HpTorques, rpm \in Rpms :
        /\ Fresh
        /\ heap' = heap
        /\ call' = [fn |-> "calc_hp", torque |-> torque, rpm |-> rpm]
        /\ ret' = calc_hp(torque, rpm)
        /\ loc' = NoLocals
        /\ exc' = "none"
        /\ prev' = NoPrev
        /\ UNCHANGED others

\* simulate_bore_change is called first, or a second time for the same engine.
SimulateBoreChange ==
    \E params \in Engines, new_bore \in NewBores :
        /\ \/ Fresh
           \/ /\ call.fn = "simulate_bore_change"
              /\ prev.fn = "none"
              /\ call.params = params
        /\ heap' = [NoHeap EXCEPT !.params = params]
        /\ call' = [fn |-> "simulate_bore_change", params |-> params,
                    new_bore |-> new_bore]
        /\ IF BoreRaises(params, new_bore)
           THEN ret' = NoValue /\ exc' = "ZeroDivisionError"
           ELSE ret' = simulate_bore_change(params, new_bore) /\ exc' = "none"
        /\ loc' = NoLocals
        /\ prev' = IF call.fn = "simulate_bore_change"
                   THEN [fn |-> call.fn, new_bore |-> call.new_bore,
                         ret |-> ret, exc |-> exc]
                   ELSE NoPrev
        /\ UNCHANGED others

SimulateStrokeChange ==
    \E params \in Engines, new_stroke \in NewStrokes :
        /\ Fresh
        /\ heap' = [NoHeap EXCEPT !.params = params]
        /\ call' = [fn |-> "simulate_stroke_change", params |-> params,
                    new_stroke |-> new_stroke]
        /\ IF StrokeRaises(params, new_stroke)
           THEN ret' = NoValue /\ exc' = "ZeroDivisionError"
           ELSE ret' = simulate_stroke_change(params, new_stroke) /\ exc' = "none"
        /\ loc' = NoLocals
        /\ prev' = NoPrev
        /\ UNCHANGED others

CalcEnginePowerRating ==
    \E torque \in RatingTorques, cylinders \in RatingCylinders :
        /\ Fresh
        /\ call' = [fn |-> "calc_engine_power_rating", torque |-> torque,
                    year |-> CurrentYear, cylinders |-> cylinders]
        /\ ret' = calc_engine_power_rating(torque, CurrentYear, cylinders)
        /\ loc' = NoLocals
        /\ exc' = "none"
        /\ prev' = NoPrev
        /\ heap' = heap
        /\ UNCHANGED others

CalcEngineFuelEcoRating ==
    \E mpg \in Mpgs :
        /\ Fresh
        /\ call' = [fn |-> "calc_engine_fuel_eco_rating", mpg |-> mpg]
        /\ ret' = calc_engine_fuel_eco_rating(mpg)
        /\ loc' = NoLocals
        /\ exc' = "none"
        /\ prev' = NoPrev
        /\ heap' = heap
        /\ UNCHANGED others

CalcEngineReliabilityRating ==
    \E sliders \in SliderMaps(EngineSliderKeys), sub \in SliderMaps(EngineSubKeys),
       skill \in Skills, rpm \in RatingRpms, stroke \in EngineStrokes :
        /\ Fresh
        /\ call' = [fn |-> "calc_engine_reliability_rating", sliders |-> sliders,
                    sub |-> sub, year |-> CurrentYear, skill |-> skill, rpm |-> rpm,
                    stroke_mm |-> stroke]
        /\ ret' = calc_engine_reliability_rating(sliders, sub, CurrentYear, skill, rpm,
                    stroke)
        /\ loc' = NoLocals
        /\ exc' = "none"
        /\ prev' = NoPrev
        /\ heap' = [NoHeap EXCEPT !.sliders = sliders, !.sub = sub]
        /\ UNCHANGED others

CalcEngineSmoothnessRating ==
    \E sliders \in SliderMaps(EngineSliderKeys), sub \in SliderMaps(EngineSubKeys),
       cylinders \in RatingCylinders, skill \in Skills :
        /\ Fresh
        /\ call' = [fn |-> "calc_engine_smoothness_rating", sliders |-> sliders,
                    sub |-> sub, cylinders |-> cylinders, skill |-> skill]
        /\ ret' = calc_engine_smoothness_rating(sliders, sub, cylinders, skill)
        /\ loc' = NoLocals
        /\ exc' = "none"
        /\ prev' = NoPrev
        /\ heap' = [NoHeap EXCEPT !.sliders = sliders, !.sub = sub]
        /\ UNCHANGED others

CalcChassisComfortRating ==
    \E sliders \in SliderMaps(ChassisSliderKeys), sub \in SliderMaps(ChassisSubKeys),
       skill \in Skills :
        /\ Fresh
        /\ call' = [fn |-> "calc_chassis_comfort_rating", sliders |-> sliders, sub |-> sub,
                    skill |-> skill]
        /\ ret' = calc_chassis_comfort_rating(sliders, sub, skill)
        /\ loc' = NoLocals
        /\ exc' = "none"
        /\ prev' = NoPrev
        /\ heap' = [NoHeap EXCEPT !.sliders = sliders, !.sub = sub]
        /\ UNCHANGED others

CalcChassisPerformanceRating ==
    \E sliders \in SliderMaps(ChassisSliderKeys), sub \in SliderMaps(ChassisSubKeys),
       skill \in Skills :
        /\ Fresh
        /\ call' = [fn |-> "calc_chassis_performance_rating", sliders |-> sliders,
                    sub |-> sub, skill |-> skill]
        /\ ret' = calc_chassis_performance_rating(sliders, sub, skill)
        /\ loc' = NoLocals
        /\ exc' = "none"
        /\ prev' = NoPrev
        /\ heap' = [NoHeap EXCEPT !.sliders = sliders, !.sub = sub]
        /\ UNCHANGED others

CalcChassisStrengthRating ==
    \E sliders \in SliderMaps(ChassisSliderKeys), sub \in SliderMaps(ChassisSubKeys),
       skill \in Skills :
        /\ Fresh
        /\ call' = [fn |-> "calc_chassis_strength_rating", sliders |-> sliders,
                    sub |-> sub, skill |-> skill]
        /\ ret' = calc_chassis_strength_rating(sliders, sub, skill)
        /\ loc' = NoLocals
        /\ exc' = "none"
        /\ prev' = NoPrev
        /\ heap' = [NoHeap EXCEPT !.sliders = sliders, !.sub = sub]
        /\ UNCHANGED others

CalcChassisDependabilityRating ==
    \E sliders \in SliderMaps(ChassisSliderKeys), sub \in SliderMaps(ChassisSubKeys),
       skill \in Skills :
        /\ Fresh
        /\ call' = [fn |-> "calc_chassis_dependability_rating", sliders |-> sliders,
                    sub |-> sub, skill |-> skill]
        /\ ret' = calc_chassis_dependability_rating(sliders, sub, skill)
        /\ loc' = NoLocals
        /\ exc' = "none"
        /\ prev' = NoPrev
        /\ heap' = [NoHeap EXCEPT !.sliders = sliders, !.sub = sub]
        /\ UNCHANGED others

CalcGearboxPowerRating ==
    \E torque_capacity \in TorqueCapacities :
        /\ Fresh
        /\ call' = [fn |-> "calc_gearbox_power_rating",
                    torque_capacity |-> torque_capacity, year |-> CurrentYear]
        /\ ret' = calc_gearbox_power_rating(torque_capacity, CurrentYear)
        /\ loc' = NoLocals
        /\ exc' = "none"
        /\ prev' = NoPrev
        /\ heap' = heap
        /\ UNCHANGED others

CalcGearboxFuelRating ==
    \E sliders \in SliderMaps(GearboxSliderKeys), sub \in SliderMaps(GearboxSubKeys),
       gears \in Gears, skill \in Skills :
        /\ Fresh
        /\ call' = [fn |-> "calc_gearbox_fuel_rating", sliders |-> sliders, sub |-> sub,
                    gears |-> gears, year |-> CurrentYear, skill |-> skill]
        /\ ret' = calc_gearbox_fuel_rating(sliders, sub, gears, CurrentYear, skill)
        /\ loc' = NoLocals
        /\ exc' = "none"
        /\ prev' = NoPrev
        /\ heap' = [NoHeap EXCEPT !.sliders = sliders, !.sub = sub]
        /\ UNCHANGED others

CalcGearboxPerformanceRating ==
    \E sliders \in SliderMaps(GearboxSliderKeys), sub \in SliderMaps(GearboxSubKeys),
       gears \in Gears, skill \in Skills :
        /\ Fresh
        /\ call' = [fn |-> "calc_gearbox_performance_rating", sliders |-> sliders,
                    sub |-> sub, gears |-> gears, year |-> CurrentYear, skill |-> skill]
        /\ ret' = calc_gearbox_performance_rating(sliders, sub, gears, CurrentYear, skill)
        /\ loc' = NoLocals
        /\ exc' = "none"
        /\ prev' = NoPrev
        /\ heap' = [NoHeap EXCEPT !.sliders = sliders, !.sub = sub]
        /\ UNCHANGED others

CalcGearboxReliabilityRating ==
    \E sliders \in SliderMaps(GearboxSliderKeys), sub \in SliderMaps(GearboxSubKeys),
       gears \in Gears, skill \in Skills :
        /\ Fresh
        /\ call' = [fn |-> "calc_gearbox_reliability_rating", sliders |-> sliders,
                    sub |-> sub, gears |-> gears, year |-> CurrentYear, skill |-> skill]
        /\ ret' = calc_gearbox_reliability_rating(sliders, sub, gears, CurrentYear, skill)
        /\ loc' = NoLocals
        /\ exc' = "none"
        /\ prev' = NoPrev
        /\ heap' = [NoHeap EXCEPT !.sliders = sliders, !.sub = sub]
        /\ UNCHANGED others

CalcGearboxComfortRating ==
    \E sliders \in SliderMaps(GearboxSliderKeys), sub \in SliderMaps(GearboxSubKeys),
       skill \in Skills :
        /\ Fresh
        /\ call' = [fn |-> "calc_gearbox_comfort_rating", sliders |-> sliders, sub |-> sub,
                    skill |-> skill]
        /\ ret' = calc_gearbox_comfort_rating(sliders, sub, skill)
        /\ loc' = NoLocals
        /\ exc' = "none"
        /\ prev' = NoPrev
        /\ heap' = [NoHeap EXCEPT !.sliders = sliders, !.sub = sub]
        /\ UNCHANGED others

CalcVehiclePerformanceRating ==
    \E engine_r \in RatingMaps, chassis_r \in RatingMaps, gearbox_r \in RatingMaps,
       v_sliders \in SliderMaps(VehicleSliderKeys), specs \in SpecMaps :
        /\ Fresh
        /\ call' = [fn |-> "calc_vehicle_performance_rating", engine_r |-> engine_r,
                    chassis_r |-> chassis_r, gearbox_r |-> gearbox_r,
                    v_sliders |-> v_sliders, specs |-> specs]
        /\ ret' = calc_vehicle_performance_rating(engine_r, chassis_r, gearbox_r,
                    v_sliders, specs)
        /\ loc' = NoLocals
        /\ exc' = "none"
        /\ prev' = NoPrev
        /\ heap' = [NoHeap EXCEPT !.sliders = v_sliders, !.sub = <<>>]
        /\ UNCHANGED others

CalcVehicleLuxuryRating ==
    \E engine_r \in RatingMaps, chassis_r \in RatingMaps, gearbox_r \in RatingMaps,
       v_sliders \in SliderMaps(VehicleSliderKeys), specs \in SpecMaps, skill \in Skills :
        /\ Fresh
        /\ call' = [fn |-> "calc_vehicle_luxury_rating", engine_r |-> engine_r,
                    chassis_r |-> chassis_r, gearbox_r |-> gearbox_r,
                    v_sliders |-> v_sliders, specs |-> specs, skill |-> skill]
        /\ ret' = calc_vehicle_luxury_rating(engine_r, chassis_r, gearbox_r, v_sliders,
                    specs, skill)
        /\ loc' = NoLocals
        /\ exc' = "none"
        /\ prev' = NoPrev
        /\ heap' = [NoHeap EXCEPT !.sliders = v_sliders, !.sub = <<>>]
        /\ UNCHANGED others

CalcVehicleSafetyRating ==
    \E chassis_r \in RatingMaps, v_sliders \in SliderMaps(VehicleSliderKeys),
       specs \in SpecMaps, skill \in Skills :
        /\ Fresh
        /\ call' = [fn |-> "calc_vehicle_safety_rating", chassis_r |-> chassis_r,
                    v_sliders |-> v_sliders, specs |-> specs, skill |-> skill]
        /\ ret' = calc_vehicle_safety_rating(chassis_r, v_sliders, specs, skill)
        /\ loc' = NoLocals
        /\ exc' = "none"
        /\ prev' = NoPrev
        /\ heap' = [NoHeap EXCEPT !.sliders = v_sliders, !.sub = <<>>]
        /\ UNCHANGED others

CalcVehicleFuelRating ==
    \E fuel_mileage \in FuelMileages :
        /\ Fresh
        /\ call' = [fn |-> "calc_vehicle_fuel_rating", fuel_mileage |-> fuel_mileage]
        /\ ret' = calc_vehicle_fuel_rating(fuel_mileage)
        /\ loc' = NoLocals
        /\ exc' = "none"
        /\ prev' = NoPrev
        /\ heap' = heap
        /\ UNCHANGED others

CalcVehicleCargoRating ==
    \E v_sliders \in SliderMaps(VehicleSliderKeys), specs \in SpecMaps :
        /\ Fresh
        /\ call' = [fn |-> "calc_vehicle_cargo_rating", v_sliders |-> v_sliders,
                    specs |-> specs]
        /\ ret' = calc_vehicle_cargo_rating(v_sliders, specs)
        /\ loc' = NoLocals
        /\ exc' = "none"
        /\ prev' = NoPrev
        /\ heap' = [NoHeap EXCEPT !.sliders = v_sliders, !.sub = <<>>]
        /\ UNCHANGED others

CalcVehicleQualityRating ==
    \E engine_r \in RatingMaps, chassis_r \in RatingMaps, gearbox_r \in RatingMaps,
       v_sliders \in SliderMaps(VehicleSliderKeys), skill \in {0, 100},
       torque_compatible \in BOOLEAN, torque_ratio \in TorqueRatios :
        /\ Fresh
        /\ call' = [fn |-> "calc_vehicle_quality_rating", engine_r |-> engine_r,
                    chassis_r |-> chassis_r, gearbox_r |-> gearbox_r,
                    v_sliders |-> v_sliders, skill |-> skill,
                    torque_compatible |-> torque_compatible, torque_ratio |-> torque_ratio]
        /\ ret' = calc_vehicle_quality_rating(engine_r, chassis_r, gearbox_r, v_sliders,
                    skill, torque_compatible, torque_ratio)
        /\ loc' = NoLocals
        /\ exc' = "none"
        /\ prev' = NoPrev
        /\ heap' = [NoHeap EXCEPT !.sliders = v_sliders, !.sub = <<>>]
        /\ UNCHANGED others

CalcVehicleDependabilityRating ==
    \E engine_r \in RatingMaps, chassis_r \in RatingMaps, gearbox_r \in RatingMaps,
       v_sliders \in SliderMaps(VehicleSliderKeys),
       torque_compatible \in BOOLEAN, torque_ratio \in TorqueRatios :
        /\ Fresh
        /\ call' = [fn |-> "calc_vehicle_dependability_rating", engine_r |-> engine_r,
                    chassis_r |-> chassis_r, gearbox_r |-> gearbox_r,
                    v_sliders |-> v_sliders, torque_compatible |-> torque_compatible,
                    torque_ratio |-> torque_ratio]
        /\ ret' = calc_vehicle_dependability_rating(engine_r, chassis_r, gearbox_r,
                    v_sliders, torque_compatible, torque_ratio)
        /\ loc' = NoLocals
        /\ exc' = "none"
        /\ prev' = NoPrev
        /\ heap' = [NoHeap EXCEPT !.sliders = v_sliders, !.sub = <<>>]
        /\ UNCHANGED others

\* estimate_engine_full is called with mappings the caller built, or a
\* second time with the same slider mapping and the sub-component mapping
\* that the first call was given (reused as the first call left it).
EstimateEngineFull ==
    \E sliders \in SliderMaps(EngineSliderKeys), supplied \in SliderMaps(EngineSubKeys),
       bore \in EngineBores, stroke \in EngineStrokes, cylinders \in EngineCylinders :
        /\ \/ Fresh
           \/ /\ call.fn = "estimate_engine_full"
              /\ prev.fn = "none"
              /\ sliders = call.sliders
              /\ supplied = call.supplied
        /\ \E sub \in {IF Fresh THEN supplied ELSE heap.sub} :
            /\ call' = [fn |-> "estimate_engine_full", sliders |-> sliders, sub |-> sub,
                        supplied |-> supplied, year |-> CurrentYear, skill |-> 50,
                        bore_mm |-> bore, stroke_mm |-> stroke, cylinders |-> cylinders]
            /\ ret' = estimate_engine_full(sliders, sub, CurrentYear, 50, bore, stroke,
                                           cylinders)
            /\ heap' = [NoHeap EXCEPT !.sliders = sliders,
                                      !.sub = EngineSubAfter(sub, stroke, cylinders)]
        /\ loc' = NoLocals
        /\ exc' = "none"
        /\ prev' = IF Fresh THEN NoPrev
                   ELSE [fn |-> call.fn, age |-> 0, penalty |-> 0]
        /\ UNCHANGED others

EstimateChassisFull ==
    \E sliders \in SliderMaps(ChassisSliderKeys), sub \in SliderMaps(ChassisSubKeys),
       skill \in Skills :
        /\ Fresh
        /\ call' = [fn |-> "estimate_chassis_full", sliders |-> sliders, sub |-> sub,
                    year |-> CurrentYear, skill |-> skill]
        /\ ret' = estimate_chassis_full(sliders, sub, CurrentYear, skill)
        /\ loc' = NoLocals
        /\ exc' = "none"
        /\ prev' = NoPrev
        /\ heap' = [NoHeap EXCEPT !.sliders = sliders, !.sub = sub]
        /\ UNCHANGED others

EstimateGearboxFull ==
    \E sliders \in SliderMaps(GearboxSliderKeys), sub \in SliderMaps(GearboxSubKeys),
       gears \in Gears, skill \in Skills :
        /\ Fresh
        /\ call' = [fn |-> "estimate_gearbox_full", sliders |-> sliders, sub |-> sub,
                    gears |-> gears, year |-> CurrentYear, skill |-> skill]
        /\ ret' = estimate_gearbox_full(sliders, sub, gears, CurrentYear, skill)
        /\ loc' = NoLocals
        /\ exc' = "none"
        /\ prev' = NoPrev
        /\ heap' = [NoHeap EXCEPT !.sliders = sliders, !.sub = sub]
        /\ UNCHANGED others

\* The slider and sub-component keys of a component type.
SliderKeysOf(component_type) ==
    CASE component_type = "engine" -> EngineSliderKeys
      [] component_type = "chassis" -> ChassisSliderKeys
      [] component_type = "gearbox" -> GearboxSliderKeys
      [] OTHER -> VehicleSliderKeys

SubKeysOf(component_type) ==
    CASE component_type = "engine" -> EngineSubKeys
      [] component_type = "chassis" -> ChassisSubKeys
      [] component_type = "gearbox" -> GearboxSubKeys
      [] OTHER -> {}

\* One slider of the component set to 1, or no change.
ChangesOf(component_type) ==
    {<<>>} \cup {Uniform({k}, FP) : k \in {"torq", "SUS_Comfort", "de_comfort"}
                                         \cap SliderKeysOf(component_type)}

SimulateSliderChange ==
    \E component_type \in ComponentTypes :
        \E current_sliders \in SliderMaps(SliderKeysOf(component_type)),
           changes \in ChangesOf(component_type),
           sub_components \in SliderMaps(SubKeysOf(component_type)) :
            /\ Fresh
            /\ call' = [fn |-> "simulate_slider_change", component_type |-> component_type,
                        sliders |-> current_sliders, changes |-> changes,
                        sub |-> sub_components, year |-> CurrentYear, skill |-> 50]
            /\ ret' = simulate_slider_change(component_type, current_sliders, changes,
                        sub_components, CurrentYear, 50)
            /\ loc' = NoLocals
            /\ exc' = "none"
            /\ prev' = NoPrev
            /\ heap' = [NoHeap EXCEPT !.sliders = current_sliders, !.sub = sub_components]
            /\ UNCHANGED others

CalculateDesignMetrics ==
    \E rows \in Batches :
        /\ Fresh
        /\ call' = [fn |-> "_calculate_design_metrics", rows |-> rows,
                    current_year |-> CurrentYear]
        /\ ret' = _calculate_design_metrics(rows, CurrentYear)
        /\ loc' = NoLocals
        /\ exc' = "none"
        /\ prev' = NoPrev
        /\ heap' = heap
        /\ UNCHANGED others


Yexp ==
    \E base \in YexpBases, year \in YexpYears :
        /\ Fresh
        /\ call' = [fn |-> "_yexp", base |-> base, year |-> year]
        /\ ret' = _yexp(base, year)
        /\ loc' = NoLocals
        /\ exc' = "none"
        /\ prev' = NoPrev
        /\ heap' = heap
        /\ UNCHANGED others

SafeLookup ==
    \E m \in LookupMaps, default \in LookupDefaults :
        /\ Fresh
        /\ call' = [fn |-> "_s", d |-> Named(m), key |-> LookupKey, default |-> default]
        /\ ret' = _s(Named(m), LookupKey, default)
        /\ loc' = [fn |-> "_s", candidate |-> FirstQualifying(Named(m), LookupKey)]
        /\ exc' = "none"
        /\ prev' = NoPrev
        /\ heap' = [NoHeap EXCEPT !.sliders = Named(m)]
        /\ UNCHANGED others

AnalyzeSliderHealth ==
    \E row \in HealthRows :
        /\ Fresh
        /\ call' = [fn |-> "analyze_slider_health", row |-> row]
        /\ ret' = IF HealthRaises(row) THEN NoValue ELSE analyze_slider_health(row)
        /\ loc' = NoLocals
        /\ exc' = IF HealthRaises(row) THEN "ValueError" ELSE "none"
        /\ prev' = NoPrev
        /\ heap' = [NoHeap EXCEPT !.sliders = row]
        /\ UNCHANGED others

CalcChassisUnitCost ==
    \E sliders \in ChassisCostSliders, sub \in ChassisCostSubs, skill \in Skills :
        /\ Fresh
        /\ \E l \in {ChassisCostLocals(sliders, sub, CurrentYear, skill, FP)} :
            /\ call' = [fn |-> "calc_chassis_unit_cost", sliders |-> sliders, sub |-> sub,
                        year |-> CurrentYear, skill |-> skill, car_price_rate |-> FP]
            /\ ret' = calc_chassis_unit_cost(l)
            /\ loc' = l
        /\ exc' = "none"
        /\ prev' = NoPrev
        /\ heap' = [NoHeap EXCEPT !.sliders = sliders, !.sub = sub]
        /\ UNCHANGED others

CalcEngineFinishTime ==
    \E level \in SliderValues, pace \in DesignPaces, name \in EnginePaceNames,
       year \in FinishYears :
        \E sliders \in {IF pace = NoneObject THEN Uniform(EngineFinishKeys, level)
                         ELSE Put(Uniform(EngineFinishKeys, level), name, pace)} :
            /\ Fresh
            /\ call' = [fn |-> "calc_engine_finish_time", sliders |-> sliders,
                        sub |-> <<>>, year |-> year, factory_val |-> 50]
            /\ ret' = calc_engine_finish_time(sliders, <<>>, year, 50)
            /\ loc' = EngineFinishLocals(sliders, <<>>, year, 50)
            /\ exc' = "none"
            /\ prev' = NoPrev
            /\ heap' = [NoHeap EXCEPT !.sliders = sliders]
            /\ UNCHANGED others

Next ==
    \/ ComponentStaleness
    \/ VehicleStaleness
    \/ CalcStaleness
    \/ EstimateModificationCost
    \/ CheckTorqueCompatibility
    \/ CalcDisplacement
    \/ CalcHp
    \/ SimulateBoreChange
    \/ SimulateStrokeChange
    \/ CalcEnginePowerRating
    \/ CalcEngineFuelEcoRating
    \/ CalcEngineReliabilityRating
    \/ CalcEngineSmoothnessRating
    \/ CalcChassisComfortRating
    \/ CalcChassisPerformanceRating
    \/ CalcChassisStrengthRating
    \/ CalcChassisDependabilityRating
    \/ CalcGearboxPowerRating
    \/ CalcGearboxFuelRating
    \/ CalcGearboxPerformanceRating
    \/ CalcGearboxReliabilityRating
    \/ CalcGearboxComfortRating
    \/ CalcVehiclePerformanceRating
    \/ CalcVehicleLuxuryRating
    \/ CalcVehicleSafetyRating
    \/ CalcVehicleFuelRating
    \/ CalcVehicleCargoRating
    \/ CalcVehicleQualityRating
    \/ CalcVehicleDependabilityRating
    \/ EstimateEngineFull
    \/ EstimateChassisFull
    \/ EstimateGearboxFull
    \/ SimulateSliderChange
    \/ CalculateDesignMetrics
    \/ Yexp
    \/ SafeLookup
    \/ AnalyzeSliderHealth
    \/ CalcChassisUnitCost
    \/ CalcEngineFinishTime

Spec == Init /\ [][Next]_vars

----------------------------------------------------------------------------
(* Concurrent calls of estimate_engine_full.                               *)
(*                                                                         *)
(* Two threads each make one call.  threads.objs holds the contents of the *)
(* two sub-component mapping objects of the caller; a thread's sub is the  *)
(* index of the object it was passed (Python passes the reference), so two *)
(* calls given the same object read and write the same contents.  A thread *)
(* takes one statement of the function at a time, and the threads          *)
(* interleave freely between statements.                                   *)

ThreadIds == {1, 2}

Other(i) == 3 - i

\* The slider mapping both vehicles use.
ThreadSliders == Uniform(EngineSliderKeys, Frac(1, 2))

\* A thread that has not made its call.
IdleThread ==
    [pc |-> "idle", sub |-> 0, stroke_mm |-> 0, cylinders |-> 0, given |-> <<>>,
     torque |-> 0, rpm |-> 0, ret |-> <<>>]

\* The contents of the mapping object thread i was passed.
SubOf(i) == threads.objs[threads.t[i].sub]

\* The threads after thread i replaced its frame (its position and locals).
Step(i, frame) == [threads EXCEPT !.t[i] = frame]

InitConcurrent ==
    /\ call = [fn |-> "none"]
    /\ ret = NoValue
    /\ loc = NoLocals
    /\ exc = "none"
    /\ prev = NoPrev
    /\ heap = NoHeap
    /\ threads = [objs |-> <<(<<>>), (<<>>)>>, t |-> <<IdleThread, IdleThread>>]
    /\ graph = NoGraph

\* A caller invokes estimate_engine_full(sliders, sub, year, skill, bore,
\* stroke, cylinders) in thread i, with one of its two mapping objects.
Invoke ==
    \E i \in ThreadIds, sub \in {1, 2}, stroke \in EngineStrokes,
       cylinders \in EngineCylinders :
        /\ threads.t[i].pc = "idle"
        /\ threads' = Step(i, [threads.t[i] EXCEPT !.pc = "write_stroke",
                                                   !.sub = sub,
                                                   !.stroke_mm = stroke,
                                                   !.cylinders = cylinders,
                                                   !.given = threads.objs[sub]])
        /\ UNCHANGED <<calls, graph>>

\* sub["stroke_mm"] = stroke_mm
WriteStroke ==
    \E i \in ThreadIds :
        /\ threads.t[i].pc = "write_stroke"
        /\ threads' = [threads EXCEPT
                          !.objs[threads.t[i].sub] =
                              Put(SubOf(i), "stroke_mm", threads.t[i].stroke_mm * FP),
                          !.t[i].pc = "setdefault"]
        /\ UNCHANGED <<calls, graph>>

\* sub.setdefault("Cylinders_CylinderCount", cylinders)
SetDefaultCylinders ==
    \E i \in ThreadIds :
        /\ threads.t[i].pc = "setdefault"
        /\ threads' = [threads EXCEPT
                          !.objs[threads.t[i].sub] =
                              SetDefault(SubOf(i), "Cylinders_CylinderCount",
                                         threads.t[i].cylinders * FP),
                          !.t[i].pc = "torque"]
        /\ UNCHANGED <<calls, graph>>

\* torque = calc_engine_torque(sliders, sub, year, skill, bore_mm, stroke_mm, cylinders)
CalcTorque ==
    \E i \in ThreadIds :
        /\ threads.t[i].pc = "torque"
        /\ threads' = Step(i, [threads.t[i] EXCEPT
                                  !.pc = "rpm",
                                  !.torque = calc_engine_torque(ThreadSliders, SubOf(i),
                                                 CurrentYear, 50, 70,
                                                 threads.t[i].stroke_mm,
                                                 threads.t[i].cylinders)])
        /\ UNCHANGED <<calls, graph>>

\* rpm = calc_engine_rpm(sliders, sub, year, skill)
CalcRpm ==
    \E i \in ThreadIds :
        /\ threads.t[i].pc = "rpm"
        /\ threads' = Step(i, [threads.t[i] EXCEPT
                                  !.pc = "rest",
                                  !.rpm = calc_engine_rpm(ThreadSliders, SubOf(i),
                                                          CurrentYear, 50)])
        /\ UNCHANGED <<calls, graph>>

\* The remaining formulas and the returned record.
ReturnResult ==
    \E i \in ThreadIds :
        /\ threads.t[i].pc = "rest"
        /\ threads' = Step(i, [threads.t[i] EXCEPT
                                  !.pc = "done",
                                  !.ret = EngineResult(ThreadSliders, SubOf(i), CurrentYear,
                                              50, 70, threads.t[i].stroke_mm,
                                              threads.t[i].cylinders,
                                              threads.t[i].torque, threads.t[i].rpm)])
        /\ UNCHANGED <<calls, graph>>

NextConcurrent ==
    \/ Invoke
    \/ WriteStroke
    \/ SetDefaultCylinders
    \/ CalcTorque
    \/ CalcRpm
    \/ ReturnResult

SpecConcurrent == InitConcurrent /\ [][NextConcurrent]_vars

----------------------------------------------------------------------------
(* The SQL pipeline of the query graph (src/src/nodes_pipeline.py, wired   *)
(* in build_graph of src/src/db_query_graph.py).                           *)
(*                                                                         *)
(* graph is the GraphState the nodes read and update, with node the node   *)
(* the graph runs next.  The answers of the language model and of SQLite   *)
(* are inputs: the planner's answer holds any number of sub-questions, the *)
(* generator's answer is empty or some SQL, and a query returns rows or    *)
(* raises.  executions is a history of the model: how many times the       *)
(* executor has run each sub-query.                                        *)

MAX_RETRIES == 2
MAX_SUB_QUERIES == 5

\* The largest number of SUBn: lines in a planner answer.
MaxPlanned == 6

\* SubQuery(..., sql="", result="", error="", retry_count=0)
SubQuery == [sql |-> "", result |-> "", error |-> "", retry_count |-> 0]

\* The first n elements of a sequence: seq[:n]
Truncated(seq, n) == SubSeq(seq, 1, Min2(Len(seq), n))

\* The sub-queries the planner returns for an answer with planned sub-questions.
planner_node(planned) ==
    Truncated([i \in 1..Max2(planned, 1) |-> SubQuery], MAX_SUB_QUERIES)

\* The sub-query at current_index (Python counts from 0).
CurrentSubQuery(state) == state.sub_queries[state.current_index + 1]

\* The branch the router takes after the executor.
\* Mutant: the router retries while retry_count <= max_retries.
RouterRetriesOnceMore(state) ==
    IF CurrentSubQuery(state).error # ""
       /\ CurrentSubQuery(state).retry_count <= state.max_retries
    THEN "retry"
    ELSE IF state.current_index + 1 < Len(state.sub_queries) THEN "advance"
    ELSE "analyst"

router_node(state) ==
    IF CurrentSubQuery(state).error # ""
       /\ CurrentSubQuery(state).retry_count < state.max_retries
    THEN "retry"
    ELSE IF state.current_index + 1 < Len(state.sub_queries) THEN "advance"
    ELSE "analyst"

\* run_query starts the graph; the pre-router hands the question to the planner.
InitPipeline ==
    /\ call = [fn |-> "none"]
    /\ ret = NoValue
    /\ loc = NoLocals
    /\ exc = "none"
    /\ prev = NoPrev
    /\ heap = NoHeap
    /\ threads = NoThreads
    /\ graph = [node |-> "planner", sub_queries |-> <<>>, current_index |-> 0,
                schema_context |-> "", max_retries |-> MAX_RETRIES,
                executions |-> <<>>]

PlannerNode ==
    \E planned \in 0..MaxPlanned :
        /\ graph.node = "planner"
        /\ graph' = [graph EXCEPT
                        !.sub_queries = planner_node(planned),
                        !.current_index = 0,
                        !.executions = [i \in DOMAIN planner_node(planned) |-> 0],
                        !.node = "load_schema"]
        /\ UNCHANGED <<calls, threads>>

LoadSchemaNode ==
    /\ graph.node = "load_schema"
    /\ graph.current_index + 1 \in DOMAIN graph.sub_queries
    /\ graph' = [graph EXCEPT !.schema_context = "schema", !.node = "sql_generator"]
    /\ UNCHANGED <<calls, threads>>

SqlGeneratorNode ==
    \E sql \in {"", "SELECT"} :
        /\ graph.node = "sql_generator"
        /\ graph' = [graph EXCEPT !.sub_queries[graph.current_index + 1].sql = sql,
                                  !.node = "executor"]
        /\ UNCHANGED <<calls, threads>>

\* An empty statement is an error; a statement returns rows or raises.
ExecutorNode ==
    \E raised \in BOOLEAN :
        /\ graph.node = "executor"
        /\ graph' = [graph EXCEPT
                        !.sub_queries[graph.current_index + 1] =
                            IF CurrentSubQuery(graph).sql = ""
                            THEN [@ EXCEPT !.error = "Empty SQL generated", !.result = ""]
                            ELSE IF raised
                            THEN [@ EXCEPT !.error = "OperationalError", !.result = ""]
                            ELSE [@ EXCEPT !.result = "rows", !.error = ""],
                        !.executions[graph.current_index + 1] = @ + 1,
                        !.node = "router"]
        /\ UNCHANGED <<calls, threads>>

\* The conditional edge after the executor.
RouterNode ==
    /\ graph.node = "router"
    /\ graph' = [graph EXCEPT !.node = router_node(graph)]
    /\ UNCHANGED <<calls, threads>>

RetryNode ==
    /\ graph.node = "retry"
    /\ graph' = [graph EXCEPT !.sub_queries[graph.current_index + 1].retry_count = @ + 1,
                              !.node = "load_schema"]
    /\ UNCHANGED <<calls, threads>>

AdvanceNode ==
    /\ graph.node = "advance"
    /\ graph' = [graph EXCEPT !.current_index = @ + 1, !.node = "load_schema"]
    /\ UNCHANGED <<calls, threads>>

NextPipeline ==
    \/ PlannerNode
    \/ LoadSchemaNode
    \/ SqlGeneratorNode
    \/ ExecutorNode
    \/ RouterNode
    \/ RetryNode
    \/ AdvanceNode

\* The graph runtime runs the next node whenever there is one.
SpecPipeline == InitPipeline /\ [][NextPipeline]_vars /\ WF_vars(NextPipeline)

----------------------------------------------------------------------------
(* Properties.                                                             *)

IsCall(fn) == call.fn = fn /\ exc = "none"

\* r is the floor, at the fixed-point scale, of (x / FP) ^ (e[1] / e[2]).
IsFloorPow(r, x, e) ==
    LET xp == BigPow(<<1>>, x, e[1])
    IN  /\ PowAtLeast(r, xp, e[1], e[2])
        /\ ~PowAtLeast(r + 1, xp, e[1], e[2])

\* C1: _component_staleness(age) is 0 for age <= 12, (age-12)*0.05 for
\* 12 < age <= 15, and (age-12)*0.05 + (age-15)*0.25 for age > 15.
C1_ComponentStaleness ==
    IsCall("_component_staleness") =>
        ret * 100 = IF call.age <= 12 THEN 0
                    ELSE IF call.age <= 15 THEN (call.age - 12) * 5 * FP
                    ELSE (call.age - 12) * 5 * FP + (call.age - 15) * 25 * FP

\* A component of age 20 has the penalty 0.4 + 1.25 = 1.65.
C1_Witness ==
    /\ IsCall("_component_staleness")
    /\ call.age = 20
    /\ ret * 100 = 165 * FP

\* C2: _vehicle_staleness(age) is 0 whenever age + 4 <= 9 and
\* ((age + 4) / 10) ^ 1.6 for every larger effective age.
C2_VehicleStaleness ==
    IsCall("_vehicle_staleness") =>
        IF call.age + 4 <= 9
        THEN ret = 0
        ELSE IsFloorPow(ret, ((call.age + 4) * FP) \div 10, <<8, 5>>)

\* A vehicle of age 16 (effective age 20) has the penalty 2 ^ 1.6 = 3.0314...
C2_Witness ==
    /\ IsCall("_vehicle_staleness")
    /\ call.age = 16
    /\ RoundTo(ret, 3) = 3031

\* C3: both staleness penalties are non-decreasing in age, and 0 at and
\* below the threshold (component age 12, vehicle effective age 9).
C3_StalenessMonotone ==
    /\ (IsCall("_component_staleness") \/ IsCall("_vehicle_staleness")) =>
          /\ ret >= 0
          /\ (prev.fn = call.fn /\ prev.age <= call.age) => prev.penalty <= ret
          /\ (prev.fn = call.fn /\ prev.age >= call.age) => prev.penalty >= ret
    /\ (IsCall("_component_staleness") /\ call.age <= 12) => ret = 0
    /\ (IsCall("_vehicle_staleness") /\ call.age + 4 <= 9) => ret = 0

\* Two calls of the component helper on both sides of the steep age.
C3_Witness ==
    /\ IsCall("_component_staleness")
    /\ prev.fn = "_component_staleness"
    /\ prev.age = 15
    /\ call.age = 16
    /\ prev.penalty < ret

IsStaleness == IsCall("calc_staleness")

\* C4: collective = 1 + the four penalties; the buyer divisor is
\* collective ^ 1.2 when collective > 1 and exactly 1 otherwise; the percent
\* retained is 100 / divisor (returned rounded to one decimal).
C4_CollectiveAndDivisor ==
    IsStaleness =>
        /\ loc.collective_age = FP + loc.car_penalty + loc.engine_penalty
                                   + loc.chassis_penalty + loc.gearbox_penalty
        /\ IF loc.collective_age > FP
           THEN IsFloorPow(loc.buyer_divisor, loc.collective_age, <<6, 5>>)
           ELSE loc.buyer_divisor = FP
        /\ 2 * Abs(ret.percent_retained * loc.buyer_divisor - 100 * 10 * FP)
              <= loc.buyer_divisor
        /\ ret.collective_age = RoundTo(loc.collective_age, 3)
        /\ ret.buyer_divisor = RoundTo(loc.buyer_divisor, 3)

\* A vehicle of age 6 with a gearbox of age 14: collective 1 + 1.0 + 0.1 = 2.1,
\* divisor 2.1 ^ 1.2 = 2.436, 41.1 percent retained.
C4_Witness ==
    /\ IsStaleness
    /\ loc.car_penalty = FP
    /\ loc.gearbox_penalty * 10 = FP
    /\ loc.engine_penalty = 0
    /\ loc.chassis_penalty = 0
    /\ ret.collective_age = 2100
    /\ ret.buyer_divisor = 2436
    /\ ret.percent_retained = 411

\* C5 as stated: the low band includes the divisor 1.0.
C5_UrgencyBandsAsStated ==
    IsStaleness =>
        ret.urgency = IF loc.buyer_divisor < FP THEN "none"
                      ELSE IF 10 * loc.buyer_divisor < 15 * FP THEN "low"
                      ELSE IF loc.buyer_divisor < 2 * FP THEN "medium"
                      ELSE IF loc.buyer_divisor < 3 * FP THEN "high"
                      ELSE "critical"

\* C5 amended: divisor <= 1.0 -> none, 1.0 < divisor < 1.5 -> low,
\* 1.5 <= divisor < 2.0 -> medium, 2.0 <= divisor < 3.0 -> high,
\* divisor >= 3.0 -> critical.
C5_UrgencyBands ==
    IsStaleness =>
        ret.urgency = IF loc.buyer_divisor <= FP THEN "none"
                      ELSE IF 10 * loc.buyer_divisor < 15 * FP THEN "low"
                      ELSE IF loc.buyer_divisor < 2 * FP THEN "medium"
                      ELSE IF loc.buyer_divisor < 3 * FP THEN "high"
                      ELSE "critical"

\* No component is stale: the divisor is exactly 1.0 and the urgency is none.
C5_Witness ==
    /\ IsStaleness
    /\ loc.buyer_divisor = FP
    /\ ret.urgency = "none"

IsScenario4 ==
    /\ IsStaleness
    /\ loc.engine_age = 10
    /\ loc.chassis_age = 20
    /\ loc.gearbox_age = 8
    /\ loc.car_age = 3

Scenario4Penalties ==
    /\ ret.component_details.engine.penalty = 0
    /\ ret.component_details.gearbox.penalty = 0
    /\ ret.component_details.vehicle.penalty = 0
    /\ ret.component_details.chassis.penalty = 1650
    /\ ret.collective_age = 2650
    /\ ret.urgency = "critical"

\* C6 as stated: ages engine 10, chassis 20, gearbox 8, vehicle 3 give
\* chassis penalty 1.65, collective 2.65, divisor 3.31 (to two decimals),
\* urgency critical.
C6_Scenario4AsStated ==
    IsScenario4 => (Scenario4Penalties /\ RoundTo(loc.buyer_divisor, 2) = 331)

\* C6 amended: the same, with the divisor 2.65 ^ 1.2 = 3.22 (to two decimals).
C6_Scenario4 ==
    IsScenario4 => (Scenario4Penalties /\ RoundTo(loc.buyer_divisor, 2) = 322)

C6_Witness ==
    /\ IsScenario4
    /\ ret.buyer_divisor = 3220
    /\ ret.urgency = "critical"

IsModCost == IsCall("estimate_modification_cost")

\* C7: total percent 15 without a change, 20 for a gearbox-only change, 25 for
\* an engine change, 100 for a chassis change; the estimated cost is that
\* percentage of the design cost (rounded to an integer).
C7_ModificationCost ==
    IsModCost =>
        /\ ret.total_percent =
              IF call.chassis_change THEN 100
              ELSE IF call.engine_change THEN 25
              ELSE IF call.gearbox_change THEN 20
              ELSE 15
        /\ 2 * Abs(100 * ret.estimated_cost
                   - call.vehicle_design_cost * ret.total_percent) <= 100
        /\ call.chassis_change => ret.estimated_cost = call.vehicle_design_cost
        /\ (call.vehicle_design_cost = 100000 /\ ~call.chassis_change
              /\ call.engine_change /\ ~call.gearbox_change)
              => ret.estimated_cost = 25000

\* Design cost 100000 with an engine change only costs 25000.
C7_Witness ==
    /\ IsModCost
    /\ call.vehicle_design_cost = 100000
    /\ call.engine_change /\ ~call.gearbox_change /\ ~call.chassis_change
    /\ ret.total_percent = 25
    /\ ret.estimated_cost = 25000

IsTorque == IsCall("check_torque_compatibility")

\* C8: with max torque > 0 and overflow = engine torque - max torque: an
\* overflow > 0 is incompatible with overflow percent overflow / max * 100
\* (300 against 250: 50, 20.0%); an overflow <= 0 is compatible with headroom
\* percent -overflow / max * 100 and no warning.  Percentages are returned
\* rounded to one decimal.
C8_TorqueCompatibility ==
    (IsTorque /\ call.gearbox_max_torque > 0) =>
        LET overflow == call.engine_torque - call.gearbox_max_torque
        IN  IF overflow > 0
            THEN /\ ret.compatible = FALSE
                 /\ ret.overflow_nm = overflow
                 /\ 2 * Abs(ret.overflow_percent * call.gearbox_max_torque
                            - overflow * 1000) <= call.gearbox_max_torque
                 /\ (call.engine_torque = 300 /\ call.gearbox_max_torque = 250)
                       => (ret.overflow_nm = 50 /\ ret.overflow_percent = 200)
            ELSE /\ ret.compatible = TRUE
                 /\ ret.headroom_nm = 0 - overflow
                 /\ 2 * Abs(ret.headroom_percent * call.gearbox_max_torque
                            + overflow * 1000) <= call.gearbox_max_torque
                 /\ ret.warning = "None"

\* Engine torque 300 against max torque 250: overflow 50, 20.0%.
C8_Witness ==
    /\ IsTorque
    /\ call.engine_torque = 300
    /\ call.gearbox_max_torque = 250
    /\ ret.compatible = FALSE
    /\ ret.overflow_percent = 200

\* C9: equal positive torques are compatible with headroom 0 and headroom
\* percent 0, without a warning.
C9_EqualTorque ==
    (IsCall("check_torque_compatibility") /\ call.gearbox_max_torque > 0
        /\ call.engine_torque = call.gearbox_max_torque) =>
        /\ ret.compatible = TRUE
        /\ ret.warning = "None"
        /\ ret.headroom_nm = 0
        /\ ret.headroom_percent = 0

C9_Witness ==
    /\ IsTorque
    /\ call.engine_torque = 250
    /\ call.gearbox_max_torque = 250
    /\ ret.compatible = TRUE
    /\ ret.warning = "None"

\* C10: with a max torque of 0 the call never raises and returns
\* compatible = true with the warning that compatibility is unknown.
C10_ZeroMaxTorque ==
    (call.fn = "check_torque_compatibility" /\ call.gearbox_max_torque = 0) =>
        /\ exc = "none"
        /\ ret.compatible = TRUE
        /\ ret.warning = "unknown"

C10_Witness ==
    /\ call.fn = "check_torque_compatibility"
    /\ call.gearbox_max_torque = 0
    /\ call.engine_torque = 300
    /\ exc = "none"
    /\ ret.warning = "unknown"

IsDisplacement == IsCall("calc_displacement")

\* The volume before rounding is DISPLACEMENT_CONSTANT / 10^4 * DispVolume / 1000.
DispVolume == call.bore_mm * call.bore_mm * call.stroke_mm * call.cylinders

RECURSIVE ToBig(_)
\* The natural n as a sequence of limbs.
ToBig(n) == IF n = 0 THEN <<>> ELSE <<n % LIMB>> \o ToBig(n \div LIMB)

\* r is 0.7854 * v / 1000 rounded to the nearest integer:
\* (2|r| - 1) / 2 <= 3927 * |v| / (5 * 10^6) <= (2|r| + 1) / 2, with the sign of v.
IsNearestCc(r, v) ==
    LET twice == BigMul(ToBig(Abs(v)), 3927)
    IN  /\ (v >= 0 => r >= 0) /\ (v <= 0 => r <= 0)
        /\ r # 0 => BigLeq(BigMul(BigMul(ToBig(2 * Abs(r) - 1), 2500), 1000), twice)
        /\ BigLeq(twice, BigMul(BigMul(ToBig(2 * Abs(r) + 1), 2500), 1000))

DispIsNearest == IsNearestCc(ret, DispVolume)

\* C11 as stated: calc_displacement is the rounded volume, and bore 70,
\* stroke 80 with 4 cylinders gives 1231.
C11_DisplacementAsStated ==
    IsDisplacement =>
        /\ DispIsNearest
        /\ (call.bore_mm = 70 /\ call.stroke_mm = 80 /\ call.cylinders = 4)
              => ret = 1231

\* C11 amended: calc_displacement is the rounded volume, and bore 70, stroke 80
\* with 4 cylinders gives round(1231.5072) = 1232.
C11_Displacement ==
    IsDisplacement =>
        /\ DispIsNearest
        /\ (call.bore_mm = 70 /\ call.stroke_mm = 80 /\ call.cylinders = 4)
              => ret = 1232

C11_Witness ==
    /\ IsDisplacement
    /\ call.bore_mm = 70 /\ call.stroke_mm = 80 /\ call.cylinders = 4
    /\ ret = 1232

\* C12 as stated: calc_displacement returns 0 only if bore or stroke is 0.
C12_ZeroOnlyForZeroBoreOrStrokeAsStated ==
    (IsDisplacement /\ ret = 0) => (call.bore_mm = 0 \/ call.stroke_mm = 0)

\* C12 amended: calc_displacement returns 0 only if bore, stroke or the
\* cylinder count is 0, or the volume is at most 0.5 cc in magnitude.
C12_ZeroOnlyForTinyVolume ==
    (IsDisplacement /\ ret = 0) =>
        \/ call.bore_mm = 0
        \/ call.stroke_mm = 0
        \/ call.cylinders = 0
        \/ Abs(DispVolume) <= (5 * (10 ^ 6)) \div 7854

\* A 70 x 80 mm engine without cylinders has displacement 0.
C12_Witness ==
    /\ IsDisplacement
    /\ ret = 0
    /\ call.bore_mm = 70 /\ call.stroke_mm = 80 /\ call.cylinders = 0

\* C13: calc_hp is 0 for rpm <= 0 and round(torque * rpm / 5252) otherwise;
\* torque 200 at 4000 rpm gives 152.
C13_Hp ==
    IsCall("calc_hp") =>
        /\ call.rpm <= 0 => ret = 0
        /\ call.rpm > 0 => 2 * Abs(5252 * ret - call.torque * call.rpm) <= 5252
        /\ (call.torque = 200 /\ call.rpm = 4000) => ret = 152

C13_Witness ==
    /\ IsCall("calc_hp")
    /\ call.torque = 200 /\ call.rpm = 4000
    /\ ret = 152

\* Two calls of simulate_bore_change for the same engine that both returned
\* an estimate, the second with the larger bore (bores are lengths: >= 0).
IsBorePair ==
    /\ IsCall("simulate_bore_change")
    /\ prev.fn = "simulate_bore_change"
    /\ prev.exc = "none"
    /\ ~IsErrorResult(ret)
    /\ ~IsErrorResult(prev.ret)
    /\ 0 <= prev.new_bore
    /\ prev.new_bore <= call.new_bore

C16_InvalidInputGivesErrorResult ==
    /\ (call.fn = "simulate_bore_change"
          /\ (call.params.bore <= 0 \/ call.params.stroke <= 0 \/ call.new_bore <= 0))
          => (exc = "none" /\ IsErrorResult(ret))
    /\ (call.fn = "simulate_stroke_change"
          /\ (call.params.bore <= 0 \/ call.params.stroke <= 0 \/ call.new_stroke <= 0))
          => (exc = "none" /\ IsErrorResult(ret))
    /\ (call.fn = "estimate_modification_cost" /\ call.vehicle_design_cost <= 0)
          => (exc = "none" /\ IsErrorResult(ret))

\* C17: calc_hp, simulate_bore_change, simulate_stroke_change, calc_staleness
\* and check_torque_compatibility never raise.
C17_EngineNeverFails ==
    call.fn \in {"calc_hp", "simulate_bore_change", "simulate_stroke_change",
                 "calc_staleness", "check_torque_compatibility"}
        => exc = "none"

----------------------------------------------------------------------------
(* Ratings, batch calculation, argument frames and statelessness.          *)

RatingFunctions ==
    {"calc_engine_power_rating", "calc_engine_fuel_eco_rating",
     "calc_engine_reliability_rating", "calc_engine_smoothness_rating",
     "calc_chassis_comfort_rating", "calc_chassis_performance_rating",
     "calc_chassis_strength_rating", "calc_chassis_dependability_rating",
     "calc_gearbox_power_rating", "calc_gearbox_fuel_rating",
     "calc_gearbox_performance_rating", "calc_gearbox_reliability_rating",
     "calc_gearbox_comfort_rating", "calc_vehicle_performance_rating",
     "calc_vehicle_luxury_rating", "calc_vehicle_safety_rating",
     "calc_vehicle_fuel_rating", "calc_vehicle_cargo_rating",
     "calc_vehicle_quality_rating", "calc_vehicle_dependability_rating"}

\* The declared lower bound of a rating.
RatingLo(fn) ==
    IF fn \in {"calc_engine_smoothness_rating", "calc_vehicle_fuel_rating"} THEN FP ELSE 0

IsRating == call.fn \in RatingFunctions /\ exc = "none"

\* C15: every rating a rating function returns lies in [0, 100], and in
\* [1, 100] for the engine smoothness and the vehicle fuel rating, for all
\* slider mappings (empty, all 0, all 0.5, all 1) and on the torque penalty
\* path of the vehicle quality and dependability ratings.
C15_RatingsWithinBounds ==
    IsRating => RatingLo(call.fn) <= ret /\ ret <= 100 * FP

\* C15 witness: the quality rating of a vehicle with all sliders at 1, all
\* component ratings at 100 and skill 100 is clamped to 100 and then
\* penalised for a torque ratio of 0.5: 100 * 0.7 + 100 * 0.25 * 0.5 = 82.5.
C15_Witness ==
    /\ IsCall("calc_vehicle_quality_rating")
    /\ call.v_sliders = Uniform(VehicleSliderKeys, FP)
    /\ call.gearbox_r = Uniform(RatingKeys, 100 * FP)
    /\ call.skill = 100
    /\ ~call.torque_compatible
    /\ call.torque_ratio = Frac(1, 2)
    /\ ret = Frac(825, 10)

\* C18: in a batch, every row whose own calculation does not fail is
\* reported, whatever happens to the other rows.
C18_BatchFailureIsLocal ==
    IsCall("_calculate_design_metrics") =>
        \A i \in DOMAIN call.rows :
            ~RowRaises(call.rows[i]) =>
                \E j \in DOMAIN ret.reports : ret.reports[j].car_id = call.rows[i].car_id

\* The functions that are given a slider and a sub-component mapping.
MappingCalculators ==
    {"estimate_engine_full", "estimate_chassis_full", "estimate_gearbox_full",
     "simulate_slider_change"}

\* C19: after a call of a full estimate, of simulate_slider_change or of a
\* bore or stroke simulation that returned, the caller's slider mapping,
\* sub-component mapping and parameter record hold what was passed.
C19_ArgumentsUnchanged ==
    /\ (call.fn \in MappingCalculators /\ exc = "none") =>
           heap.sliders = call.sliders /\ heap.sub = call.sub
    /\ (call.fn \in {"simulate_bore_change", "simulate_stroke_change"} /\ exc = "none") =>
           heap.params = call.params

\* C20: a call of estimate_engine_full returns what the same call returns
\* in isolation with the mappings the caller supplied, also when the
\* sub-component mapping was passed to an earlier call.
C20_Stateless ==
    IsCall("estimate_engine_full") =>
        ret = estimate_engine_full(call.sliders, call.supplied, call.year, call.skill,
                                   call.bore_mm, call.stroke_mm, call.cylinders)

----------------------------------------------------------------------------
(* Torque penalty, year exponent and safe lookup.                          *)

\* The rating of the call without the torque penalty.
Unpenalized ==
    IF call.fn = "calc_vehicle_quality_rating"
    THEN calc_vehicle_quality_rating(call.engine_r, call.chassis_r, call.gearbox_r,
                                     call.v_sliders, call.skill, TRUE, call.torque_ratio)
    ELSE calc_vehicle_dependability_rating(call.engine_r, call.chassis_r, call.gearbox_r,
                                           call.v_sliders, TRUE, call.torque_ratio)

\* The call is penalised: the torque is incompatible and the ratio is in [0, 1).
IsPenalized ==
    /\ IsCall("calc_vehicle_quality_rating") \/ IsCall("calc_vehicle_dependability_rating")
    /\ ~call.torque_compatible
    /\ 0 <= call.torque_ratio
    /\ call.torque_ratio < FP

\* C24: when the engine torque exceeds the gearbox capacity, the quality
\* rating and the dependability rating are the unpenalised rating times a
\* factor between 0.7 and 0.95, for every torque ratio in [0, 1).
C24_PenaltyFactorBounded ==
    IsPenalized =>
        /\ Percent(70, Unpenalized) <= ret
        /\ ret <= Percent(95, Unpenalized)

\* C25: for every year above 2020 the year exponent helper returns
\* base ^ 121, its value for the year 2020.
C25_YearExponentCapped ==
    (IsCall("_yexp") /\ call.year > 2020) => ret = FixIntPow(call.base, 121)

\* Candidate i of the looked-up key is present in the mapping of the call
\* with a value that is not None and that float() converts.
CandidateQualifies(i) ==
    /\ Candidates(call.key)[i] \in DOMAIN call.d
    /\ call.d[Candidates(call.key)[i]] # NoneObject
    /\ call.d[Candidates(call.key)[i]] # BadString

\* C28: _s probes key, slider_<key>, ch_<key>, g_<key> in that order and
\* returns the value of the first candidate that is present with a
\* non-null, float-convertible value; it falls through to the default if
\* and only if no candidate qualifies.
C28_SafeLookup ==
    IsCall("_s") =>
        /\ (loc.candidate = 0) <=> (\A i \in 1 .. 4 : ~CandidateQualifies(i))
        /\ loc.candidate = 0 => ret = call.default
        /\ \A i \in 1 .. 4 :
            (CandidateQualifies(i) /\ \A j \in 1 .. (i - 1) : ~CandidateQualifies(j)) =>
                /\ loc.candidate = i
                /\ ret = call.d[Candidates(call.key)[i]]

\* The key is absent, slider_torq holds None, ch_torq holds a string that is
\* no number and g_torq holds 0.4, which is returned.
C28_Witness ==
    /\ IsCall("_s")
    /\ DOMAIN call.d = {"slider_torq", "ch_torq", "g_torq"}
    /\ call.d["slider_torq"] = NoneObject
    /\ call.d["ch_torq"] = BadString
    /\ call.d["g_torq"] = Frac(4, 10)
    /\ call.default = Frac(35, 100)
    /\ ret = Frac(4, 10)

----------------------------------------------------------------------------
(* Slider health diagnosis.                                                *)

IsHealth == IsCall("analyze_slider_health")

\* The number of warnings of a kind about a key in the returned list.
WarningCount(kind, key) ==
    Cardinality({i \in DOMAIN ret : ret[i].kind = kind /\ ret[i].key = key})

\* The value of a slider of the row of the call; a missing or null slider
\* counts as 0.
RowValue(k) ==
    IF k \in DOMAIN call.row /\ call.row[k] # NoneObject THEN call.row[k] ELSE 0

RECURSIVE RowSum(_, _)
\* The sum of the values of the first n sliders of a category.
RowSum(keys, n) == IF n = 0 THEN 0 ELSE RowValue(keys[n]) + RowSum(keys, n - 1)

\* The mean of the category is at least the threshold t percent.
MeanAtLeast(keys, t) == 100 * RowSum(keys, Len(keys)) >= t * FP * Len(keys)

\* C22: per category exactly one danger warning when the mean of its
\* sliders is >= 0.75, exactly one inefficiency warning when
\* 0.65 <= mean < 0.75, and no average warning when the mean is below 0.65.
C22_AverageWarnings ==
    IsHealth =>
        \A c \in 1 .. 4 :
            LET label == HealthCategories[c].label
                keys == HealthCategories[c].keys
            IN  /\ WarningCount("danger", label) =
                       (IF MeanAtLeast(keys, 75) THEN 1 ELSE 0)
                /\ WarningCount("inefficient", label) =
                       (IF MeanAtLeast(keys, 65) /\ ~MeanAtLeast(keys, 75) THEN 1 ELSE 0)

\* The engine mean is 0.85 (danger), the chassis mean is exactly 0.75
\* (danger), the gearbox mean is exactly 0.65 (inefficient) and the vehicle
\* mean is 0.05 (no average warning).
C22_Witness ==
    /\ IsHealth
    /\ call.row = HealthRow(Frac(85, 100), Frac(75, 100), Frac(65, 100), Frac(5, 100),
                            Frac(75, 100), Frac(76, 100))
    /\ ret[1] = [kind |-> "danger", key |-> "Engine", value |-> Frac(85, 100)]
    /\ ret[2] = [kind |-> "danger", key |-> "Chassis", value |-> Frac(75, 100)]
    /\ ret[3] = [kind |-> "inefficient", key |-> "Gearbox", value |-> Frac(65, 100)]
    /\ WarningCount("danger", "Vehicle") + WarningCount("inefficient", "Vehicle") = 0

\* C23: a per-slider warning is emitted exactly when a slider of the
\* negative-cross-effect list is >= 0.85, a slider of the critical list is
\* <= 0.05, or a design pace is strictly above 0.75.
C23_SliderWarnings ==
    IsHealth =>
        /\ \A i \in DOMAIN _NEGATIVE_CROSS_EFFECTS :
               WarningCount("high", _NEGATIVE_CROSS_EFFECTS[i]) =
                   (IF 100 * RowValue(_NEGATIVE_CROSS_EFFECTS[i]) >= 85 * FP THEN 1 ELSE 0)
        /\ \A i \in DOMAIN _CRITICAL_IF_ZERO :
               WarningCount("low", _CRITICAL_IF_ZERO[i]) =
                   (IF 100 * RowValue(_CRITICAL_IF_ZERO[i]) <= 5 * FP THEN 1 ELSE 0)
        /\ \A i \in DOMAIN PaceKeys :
               WarningCount("pace", PaceKeys[i].key) =
                   (IF 100 * RowValue(PaceKeys[i].key) > 75 * FP THEN 1 ELSE 0)
        /\ \A i \in DOMAIN ret :
               \/ ret[i].kind \in {"danger", "inefficient"}
               \/ ret[i].kind = "high" /\ ret[i].key \in Range(_NEGATIVE_CROSS_EFFECTS)
               \/ ret[i].kind = "low" /\ ret[i].key \in Range(_CRITICAL_IF_ZERO)
               \/ ret[i].kind = "pace" /\ ret[i].key \in {PaceKeys[j].key : j \in DOMAIN PaceKeys}

\* An engine pace of exactly 0.75 gives no warning and a vehicle pace of
\* 0.76 gives one; Scroll_DesignDepend at 0.86 is warned as high, and the
\* engine dependability slider at 0.65 is not warned.
C23_Witness ==
    /\ IsHealth
    /\ call.row = Put(HealthRow(Frac(65, 100), Frac(65, 100), Frac(65, 100), Frac(65, 100),
                                Frac(75, 100), Frac(76, 100)),
                      "Scroll_DesignDepend", Frac(86, 100))
    /\ WarningCount("pace", "engine_design_pace") = 0
    /\ WarningCount("pace", "car_design_pace") = 1
    /\ WarningCount("high", "Scroll_DesignDepend") = 1
    /\ WarningCount("low", "Scroll_DesignDepend") = 0
    /\ WarningCount("low", "slider_designdependability") = 0

----------------------------------------------------------------------------
(* Chassis unit cost and finish time.                                      *)

\* The unit cost built from the three sub-costs and the skill discount alone,
\* at car price rate 1.
CostOfSubCosts ==
    LET mc == loc.c_frame + loc.c_sus + loc.c_tech
    IN  mc + (mc - Percent(call.skill, mc \div 10))

\* C26: with the three sub-costs and the skill held fixed, the returned unit
\* cost is higher by the hyper-slider penalty 450 * 1.045^(year-1899) * hyper^4.
C26_HyperPenaltyInCost ==
    IsCall("calc_chassis_unit_cost") => ret - CostOfSubCosts >= loc.c_hyper

\* The finish time without the design pace adjustment, with the floor of 1.
UnadjustedFinishTime == Max2(loc.ft, FP)

\* C27: a design pace below 0.5 lengthens the finish time, a design pace at
\* or above 0.5 shortens it (compared with the time without the pace
\* adjustment), and the returned time is never below 1.
C27_PaceAsymmetric ==
    IsCall("calc_engine_finish_time") =>
        /\ loc.s_pace < Frac(1, 2) => ret >= UnadjustedFinishTime
        /\ loc.s_pace >= Frac(1, 2) => ret <= UnadjustedFinishTime
        /\ ret >= FP

----------------------------------------------------------------------------
(* Ages of the staleness analysis of a batch.                              *)

\* The ages that current_year minus the effective year gives for row i.
ExpectedAges(i) ==
    LET y == call.rows[i].years
        Later(a, b) == IF a >= b THEN a ELSE b
    IN  [vehicle |-> call.current_year - y.car_year,
         engine |-> call.current_year - Later(y.engine_year, y.engine_mod_year),
         chassis |-> call.current_year - Later(y.chassis_year, y.chassis_mod_year),
         gearbox |-> call.current_year - Later(y.gearbox_year, y.gearbox_mod_year)]

\* C29: every age reported by the staleness analysis is current_year minus
\* the effective year (the later of build year and modification year), and
\* is >= 0, for every vehicle row processed.
C29_AgesNonNegative ==
    (IsCall("_calculate_design_metrics") /\ ~ret.error) =>
        \A i \in DOMAIN ret.reports :
            \A c \in {"vehicle", "engine", "chassis", "gearbox"} :
                /\ ret.reports[i].staleness.component_details[c].age = ExpectedAges(i)[c]
                /\ ret.reports[i].staleness.component_details[c].age >= 0

\* What the call of thread i returns when it runs alone before the other
\* call, and when it runs alone after the other call has returned.
RunsFirst(i) ==
    estimate_engine_full(ThreadSliders, threads.t[i].given, CurrentYear, 50, 70,
                         threads.t[i].stroke_mm, threads.t[i].cylinders)

RunsSecond(i) ==
    estimate_engine_full(ThreadSliders,
                         IF threads.t[i].sub = threads.t[Other(i)].sub
                         THEN EngineSubAfter(threads.t[i].given,
                                             threads.t[Other(i)].stroke_mm,
                                             threads.t[Other(i)].cylinders)
                         ELSE threads.t[i].given,
                         CurrentYear, 50, 70,
                         threads.t[i].stroke_mm, threads.t[i].cylinders)

BothDone == \A i \in ThreadIds : threads.t[i].pc = "done"

\* C21: when two calls of estimate_engine_full have run concurrently, in
\* any interleaving of their statements, each call has returned the result
\* it returns when the two calls run one after the other, in one order or
\* the other.
C21_InterleavingsAreSerial ==
    BothDone =>
        \A i \in ThreadIds : threads.t[i].ret \in {RunsFirst(i), RunsSecond(i)}

Planned == graph.node # "planner" /\ graph.node # "none"

RECURSIVE ExecutorSteps(_)
\* The number of executor steps taken for the first n sub-queries.
ExecutorSteps(n) == IF n = 0 THEN 0 ELSE graph.executions[n] + ExecutorSteps(n - 1)

\* The bounds of C30 that hold in every state after the planner.
PipelineBounded ==
    Planned =>
        /\ Len(graph.sub_queries) \in 1..MAX_SUB_QUERIES
        /\ graph.current_index \in 0..(Len(graph.sub_queries) - 1)
        /\ \A i \in DOMAIN graph.sub_queries :
              /\ graph.executions[i] <= graph.max_retries + 1
              /\ graph.sub_queries[i].retry_count <= graph.max_retries
              /\ (i > graph.current_index + 1) => graph.executions[i] = 0
        /\ ExecutorSteps(Len(graph.sub_queries))
               <= Len(graph.sub_queries) * (graph.max_retries + 1)
        /\ (graph.node = "retry") =>
               /\ CurrentSubQuery(graph).error # ""
               /\ CurrentSubQuery(graph).retry_count < graph.max_retries

\* The current index never decreases and moves by one sub-query at a time.
IndexAscends ==
    Planned => graph'.current_index \in {graph.current_index, graph.current_index + 1}

====
